---- MODULE Spec2Model ----
(***************************************************************************)
(* RestAPIRelayPlugin (src/unnamed/part_001, lines 13-176): the token      *)
(* lifecycle and send/retry state machine of the REST relay plugin.        *)
(*                                                                         *)
(* Every await of the source is a suspension point.  An action is the code *)
(* that runs between two suspension points of one call: it consumes the    *)
(* outcome of the awaited request or timer (drawn with \E from the         *)
(* answers the endpoint can give) and runs up to the next await or to the  *)
(* settlement of the call's promise.  trace[p] is what an observer of the  *)
(* call sees, in order: the requests axios is given, the answers it gives  *)
(* back, timers, cache writes, logger calls and tracer calls.              *)
(***************************************************************************)
EXTENDS Integers, Sequences, FiniteSets, TLC

\* ---------------------------------------------------------------- bounds

\* Largest retry budget the configuration is drawn from (besides the default).
MaxRetry == 3
\* Number of calls the host may have in flight at once.
NumProcs == 2

\* ------------------------------------------------------ program constants

DEFAULT_RETRY_ATTEMPTS == 10
SUCCESS_CODE == 200
ERROR_CODE == 401
HEALTH_DELAY == 500
FETCH_DELAY == 5000

AUTH_HEALTH_URL == "AUTH_HEALTH_URL"
AUTH_TOKEN_URL == "AUTH_TOKEN_URL"
DESTINATION_TRANSPORT_URL == "DESTINATION_TRANSPORT_URL"
AUTH_USERNAME == "AUTH_USERNAME"
AUTH_PASSWORD == "AUTH_PASSWORD"

\* What the README says of the delays and of fetchToken's attempts.
README_HEALTH_DELAY == 5000
README_FETCH_ATTEMPTS == 5
README_FETCH_DELAY == 500

PluginName == "RestAPIRelayPlugin"

InitError == "Initialization failed: Unable to fetch a valid token"
TokenFetchError == "Failed to fetch token after multiple attempts"

\* ------------------------------------------------------------ environment

undefined == "<undefined>"
null == "<null>"
NoError == "<none>"

\* Errors axios rejects with, one per endpoint.
HealthNetworkError == "health: Network error"
TokenNetworkError == "token: Network error"
SendNetworkError == "destination: Network error"

\* What an awaited axios call settles to: a response (status, data) or a throw.
Response(status, body) == [threw |-> FALSE, status |-> status, data |-> body, error |-> NoError]
Rejection(e) == [threw |-> TRUE, status |-> 0, data |-> null, error |-> e]

Tokens == {"tok1", "tok2"}
HealthAnswers == {Response(s, null) : s \in {200, 500}} \cup {Rejection(HealthNetworkError)}
TokenAnswers == {Response(200, b) : b \in Tokens \cup {null}} \cup {Rejection(TokenNetworkError)}
DestAnswers == {Response(s, null) : s \in {200, 401, 500}} \cup {Rejection(SendNetworkError)}

\* The payloads the host hands to relay: a text string or a byte sequence.
Payloads == { [type |-> "string", value |-> "hello"],
              [type |-> "Uint8Array", value |-> "bytes[1,2,3]"],
              [type |-> "Buffer", value |-> "buffer(test)"] }
NoPayload == [type |-> "none", value |-> ""]

\* JavaScript's typeof on a payload: byte sequences are objects.
typeof(payload) == IF payload.type = "string" THEN "string" ELSE "object"

\* Faulty variant of Truthy: only undefined counts as no value, so a null body
\* passes for a token.
Truthy_OnlyUndefined(v) == v # undefined

\* JavaScript truthiness of a response body (if (tokenRes.data), !tokenRes.data).
\* Faulty variant of Truthy: the test is `!= null`, which lets '' through.
Truthy_NotNullish(v) == v # null /\ v # undefined

Truthy(v) == v # null /\ v # undefined /\ v # ""

Procs == 1..NumProcs

\* What the calls that run concurrently send, and what they are answered: one
\* payload, and one answer of each kind the code tells apart.
ConcPayloads == {d \in Payloads : typeof(d) = "string"}
ConcTokenAnswers == {r \in TokenAnswers : r.threw \/ r.data \in Tokens}
ConcDestAnswers == {r \in DestAnswers : r.threw \/ r.status \in {SUCCESS_CODE, ERROR_CODE}}

VARIABLES
    configuration,  \* this.configuration: [RETRY_ATTEMPTS]
    cache,          \* this.cache: the NodeCache, a mapping key -> value
    loggerService,  \* this.loggerService is set (TRUE) or undefined (FALSE)
    apm,            \* this.apm is set (TRUE) or undefined (FALSE)
    frame,          \* per call: position and the locals of init/relay/fetchToken/sendData
    trace,          \* per call: the observable events of the call, in order
    outcome         \* per call: the promise returned to the host

vars == <<configuration, cache, loggerService, apm, frame, trace, outcome>>

\* ------------------------------------------------------------- the cache

\* NodeCache.get: the stored value, undefined on a miss.
CacheGet(c, key) == IF key \in DOMAIN c THEN c[key] ELSE undefined

\* Faulty variant of CacheSet: a key that is present keeps its value.
CacheSet_KeepFirst(c, key, value) == IF key \in DOMAIN c THEN c ELSE c @@ (key :> value)

\* Faulty variant of CacheSet: the write is lost.
CacheSet_Lost(c, key, value) == c

\* NodeCache.set: store or overwrite (no TTL is configured).
CacheSet(c, key, value) == [k \in DOMAIN c \cup {key} |-> IF k = key THEN value ELSE c[k]]

EmptyCache == [k \in {} |-> undefined]

\* ---------------------------------------------------------------- events

EvGet(url) == [ev |-> "GET", url |-> url]
EvPostToken == [ev |-> "POST", url |-> AUTH_TOKEN_URL,
                body |-> [username |-> AUTH_USERNAME, password |-> AUTH_PASSWORD]]
EvAnswer(url, r) == [ev |-> "answer", url |-> url, r |-> r]
EvDelay(ms) == [ev |-> "delay", ms |-> ms]
EvCacheSet(key, value) == [ev |-> "cache.set", key |-> key, value |-> value]
EvCacheGet(key, value) == [ev |-> "cache.get", key |-> key, value |-> value]
EvCall(fn) == [ev |-> "call", fn |-> fn]
EvApm(what) == [ev |-> what]

\* this.loggerService?.log(message, source): nothing happens without a logger.
Log(lg, message, source) ==
    IF lg THEN <<[ev |-> "log", level |-> "log", message |-> message,
                  detail |-> undefined, source |-> source]>>
    ELSE <<>>

\* this.loggerService?.error(message, detail, source)
LogError(lg, message, detail, source) ==
    IF lg THEN <<[ev |-> "log", level |-> "error", message |-> message,
                  detail |-> detail, source |-> source]>>
    ELSE <<>>

\* ---------------------------------------------------------------- frames

IdleFrame == [pc |-> "idle", op |-> "none", i |-> 0, token |-> undefined,
              newToken |-> undefined, payload |-> NoPayload, ret |-> "none",
              apmTransaction |-> FALSE, span |-> FALSE]

Pending == [state |-> "pending", error |-> NoError]
Resolved == [state |-> "resolved", error |-> NoError]
Rejected(e) == [state |-> "rejected", error |-> e]
NotCalled == [state |-> "none", error |-> NoError]

\* The host may start a call on p when p has none in flight.
Free(p) == frame[p].pc \in {"idle", "done"}

Update(p, f, tr, out) ==
    /\ frame' = [frame EXCEPT ![p] = f]
    /\ trace' = [trace EXCEPT ![p] = tr]
    /\ outcome' = [outcome EXCEPT ![p] = out]

Done(f) == [f EXCEPT !.pc = "done"]

\* ------------------------------------------------------------------ init

\* Faulty variant of InitLoop: the loop test is i <= RETRY_ATTEMPTS.
InitLoop_OffByOne(p, f, k, tr, lg) ==
    IF k <= configuration.RETRY_ATTEMPTS
    THEN Update(p, [f EXCEPT !.pc = "init_health", !.i = k],
                tr \o <<EvGet(AUTH_HEALTH_URL)>>, Pending)
    ELSE Update(p, Done([f EXCEPT !.i = k]),
                tr \o LogError(lg,
                               "Failed to initialize RestAPIRelayPlugin after multiple attempts",
                               PluginName, undefined),
                Rejected(InitError))

\* The head of init's for loop with counter value k (line 39): issue the next
\* health probe, or leave the loop with isHealthy still false (lines 60-63).
InitLoop(p, f, k, tr, lg) ==
    IF k < configuration.RETRY_ATTEMPTS
    THEN Update(p, [f EXCEPT !.pc = "init_health", !.i = k],
                tr \o <<EvGet(AUTH_HEALTH_URL)>>, Pending)
    ELSE Update(p, Done([f EXCEPT !.i = k]),
                tr \o LogError(lg,
                               "Failed to initialize RestAPIRelayPlugin after multiple attempts",
                               PluginName, undefined),
                Rejected(InitError))

\* init(loggerService, apm) up to the first await (lines 34-40).
InitCall(p, lg, ap) ==
    /\ Free(p)
    /\ loggerService' = lg
    /\ apm' = ap
    /\ InitLoop(p, [IdleFrame EXCEPT !.op = "init"], 0,
                Log(lg, "init() called, fetching auth token", PluginName), lg)
    /\ UNCHANGED <<configuration, cache>>

\* Faulty variant of InitHealthAnswer: the token is asked for whatever the
\* status of the probe.
InitHealthAnswer_NoStatusTest(p, r) ==
    /\ frame[p].pc = "init_health"
    /\ LET tr == trace[p] \o <<EvAnswer(AUTH_HEALTH_URL, r)>> IN
       IF r.threw
       THEN Update(p, Done(frame[p]), tr, Rejected(r.error))
       ELSE Update(p, [frame[p] EXCEPT !.pc = "init_token"], tr \o <<EvPostToken>>, Pending)
    /\ UNCHANGED <<configuration, cache, loggerService, apm>>

\* Faulty variant of InitHealthAnswer: a thrown probe is retried like a
\* non-200 answer.
InitHealthAnswer_RetryOnThrow(p, r) ==
    /\ frame[p].pc = "init_health"
    /\ LET tr == trace[p] \o <<EvAnswer(AUTH_HEALTH_URL, r)>> IN
       IF r.threw \/ r.status # SUCCESS_CODE
       THEN Update(p, [frame[p] EXCEPT !.pc = "init_delay"],
                   tr \o Log(loggerService, "Health check failed,trying again", PluginName)
                      \o <<EvDelay(HEALTH_DELAY)>>,
                   Pending)
       ELSE Update(p, [frame[p] EXCEPT !.pc = "init_token"], tr \o <<EvPostToken>>, Pending)
    /\ UNCHANGED <<configuration, cache, loggerService, apm>>

\* The health probe settles (lines 40-50).
InitHealthAnswer(p, r) ==
    /\ frame[p].pc = "init_health"
    /\ LET tr == trace[p] \o <<EvAnswer(AUTH_HEALTH_URL, r)>> IN
       IF r.threw
       THEN Update(p, Done(frame[p]), tr, Rejected(r.error))
       ELSE IF r.status # SUCCESS_CODE
       THEN Update(p, [frame[p] EXCEPT !.pc = "init_delay"],
                   tr \o Log(loggerService, "Health check failed,trying again", PluginName)
                      \o <<EvDelay(HEALTH_DELAY)>>,
                   Pending)
       ELSE Update(p, [frame[p] EXCEPT !.pc = "init_token"], tr \o <<EvPostToken>>, Pending)
    /\ UNCHANGED <<configuration, cache, loggerService, apm>>

\* Faulty variant of InitDelayDone: a failed probe is tried again without
\* using up an attempt.
InitDelayDone_SameAttempt(p) ==
    /\ frame[p].pc = "init_delay"
    /\ InitLoop(p, frame[p], frame[p].i, trace[p], loggerService)
    /\ UNCHANGED <<configuration, cache, loggerService, apm>>

\* The 500 ms timer fires; the loop goes to its next iteration (lines 45, 39).
InitDelayDone(p) ==
    /\ frame[p].pc = "init_delay"
    /\ InitLoop(p, frame[p], frame[p].i + 1, trace[p], loggerService)
    /\ UNCHANGED <<configuration, cache, loggerService, apm>>

\* Faulty variant of InitTokenAnswer: an unusable token is followed by the
\* 500 ms delay before the next iteration.
InitTokenAnswer_DelayOnInvalid(p, r) ==
    /\ frame[p].pc = "init_token"
    /\ UNCHANGED <<configuration, loggerService, apm>>
    /\ LET tr == trace[p] \o <<EvAnswer(AUTH_TOKEN_URL, r)>> IN
       IF r.threw
       THEN /\ Update(p, Done(frame[p]), tr, Rejected(r.error))
            /\ UNCHANGED cache
       ELSE IF ~Truthy(r.data)
       THEN /\ Update(p, [frame[p] EXCEPT !.pc = "init_delay"],
                      tr \o LogError(loggerService, "Token response is invalid", r, PluginName)
                         \o <<EvDelay(HEALTH_DELAY)>>,
                      Pending)
            /\ UNCHANGED cache
       ELSE /\ cache' = CacheSet(cache, AUTH_USERNAME, r.data)
            /\ Update(p, Done(frame[p]),
                      tr \o <<EvCacheSet(AUTH_USERNAME, r.data)>>, Resolved)

\* Faulty variant of InitTokenAnswer: an unusable token ends the loop.
InitTokenAnswer_BreakOnInvalid(p, r) ==
    /\ frame[p].pc = "init_token"
    /\ UNCHANGED <<configuration, loggerService, apm>>
    /\ LET tr == trace[p] \o <<EvAnswer(AUTH_TOKEN_URL, r)>> IN
       IF r.threw
       THEN /\ Update(p, Done(frame[p]), tr, Rejected(r.error))
            /\ UNCHANGED cache
       ELSE IF ~Truthy(r.data)
       THEN /\ InitLoop(p, frame[p], configuration.RETRY_ATTEMPTS,
                        tr \o LogError(loggerService, "Token response is invalid", r, PluginName),
                        loggerService)
            /\ UNCHANGED cache
       ELSE /\ cache' = CacheSet(cache, AUTH_USERNAME, r.data)
            /\ Update(p, Done(frame[p]),
                      tr \o <<EvCacheSet(AUTH_USERNAME, r.data)>>, Resolved)

\* Faulty variant of InitTokenAnswer: the loop goes on after a usable token.
InitTokenAnswer_NoBreak(p, r) ==
    /\ frame[p].pc = "init_token"
    /\ UNCHANGED <<configuration, loggerService, apm>>
    /\ LET tr == trace[p] \o <<EvAnswer(AUTH_TOKEN_URL, r)>> IN
       IF r.threw
       THEN /\ Update(p, Done(frame[p]), tr, Rejected(r.error))
            /\ UNCHANGED cache
       ELSE IF ~Truthy(r.data)
       THEN /\ InitLoop(p, frame[p], frame[p].i + 1,
                        tr \o LogError(loggerService, "Token response is invalid", r, PluginName),
                        loggerService)
            /\ UNCHANGED cache
       ELSE /\ cache' = CacheSet(cache, AUTH_USERNAME, r.data)
            /\ InitLoop(p, frame[p], frame[p].i + 1,
                        tr \o <<EvCacheSet(AUTH_USERNAME, r.data)>>, loggerService)

\* The token POST of init settles (lines 47-63).
InitTokenAnswer(p, r) ==
    /\ frame[p].pc = "init_token"
    /\ UNCHANGED <<configuration, loggerService, apm>>
    /\ LET tr == trace[p] \o <<EvAnswer(AUTH_TOKEN_URL, r)>> IN
       IF r.threw
       THEN /\ Update(p, Done(frame[p]), tr, Rejected(r.error))
            /\ UNCHANGED cache
       ELSE IF ~Truthy(r.data)
       THEN /\ InitLoop(p, frame[p], frame[p].i + 1,
                        tr \o LogError(loggerService, "Token response is invalid", r, PluginName),
                        loggerService)
            /\ UNCHANGED cache
       ELSE /\ cache' = CacheSet(cache, AUTH_USERNAME, r.data)
            /\ Update(p, Done(frame[p]),
                      tr \o <<EvCacheSet(AUTH_USERNAME, r.data)>>, Resolved)

\* ------------------------------------------------------------- sendData

\* JSON.stringify(data): a text that spells the value out.
JSONStringify(data) == [type |-> "string", value |-> <<"JSON", data.type, data.value>>]

\* preparePayload(data) of the earlier revision of relay (lines 325-333): a
\* Buffer or a string as it is, anything else as its JSON text.
preparePayload(data) ==
    IF data.type = "Buffer" THEN data
    ELSE IF typeof(data) = "string" THEN data
    ELSE JSONStringify(data)

\* Faulty variant of makeRequest: the body is the prepared payload.
makeRequest_Prepared(authToken, payload) ==
    [ev |-> "POST", url |-> DESTINATION_TRANSPORT_URL, body |-> preparePayload(payload),
     headers |-> ("Authorization" :> <<"Bearer", authToken>>)
                 @@ (IF typeof(payload) = "string"
                     THEN ("Content-Type" :> <<"application/json">>)
                     ELSE [h \in {} |-> <<>>]),
     httpAgent |-> "this.httpAgent", httpsAgent |-> "this.httpsAgent"]

\* Faulty variant of makeRequest: Content-Type is set whatever the payload is.
makeRequest_AlwaysJson(authToken, payload) ==
    [ev |-> "POST", url |-> DESTINATION_TRANSPORT_URL, body |-> payload,
     headers |-> ("Authorization" :> <<"Bearer", authToken>>)
                 @@ ("Content-Type" :> <<"application/json">>),
     httpAgent |-> "this.httpAgent", httpsAgent |-> "this.httpsAgent"]

\* makeRequest(authToken) (lines 151-161): the POST handed to axios.
makeRequest(authToken, payload) ==
    [ev |-> "POST", url |-> DESTINATION_TRANSPORT_URL, body |-> payload,
     headers |-> ("Authorization" :> <<"Bearer", authToken>>)
                 @@ (IF typeof(payload) = "string"
                     THEN ("Content-Type" :> <<"application/json">>)
                     ELSE [h \in {} |-> <<>>]),
     httpAgent |-> "this.httpAgent", httpsAgent |-> "this.httpsAgent"]

\* Faulty variant of RelayCatch: the transaction is ended on the success path
\* only, not in a finally block.
RelayCatch_NoFinally(p, f, tr, e) ==
    Update(p, Done(f),
           tr \o LogError(loggerService, "Error relaying data", e, PluginName),
           Rejected(e))

\* Faulty variant of RelayCatch: the span is ended on the error path too.
RelayCatch_EndsSpan(p, f, tr, e) ==
    Update(p, Done(f),
           tr \o LogError(loggerService, "Error relaying data", e, PluginName)
              \o (IF f.span THEN <<EvApm("span.end")>> ELSE <<>>)
              \o (IF f.apmTransaction THEN <<EvApm("transaction.end")>> ELSE <<>>),
           Rejected(e))

\* relay's catch and finally blocks for an error e thrown in the try block
\* (lines 89-96): log, end the transaction if there is one, rethrow.
RelayCatch(p, f, tr, e) ==
    Update(p, Done(f),
           tr \o LogError(loggerService, "Error relaying data", e, PluginName)
              \o (IF f.apmTransaction THEN <<EvApm("transaction.end")>> ELSE <<>>),
           Rejected(e))

\* Faulty variant of RelayReturn: the transaction is ended in the catch block
\* only, so a call that succeeds leaves it open.
RelayReturn_KeepsOpen(p, f, tr) ==
    Update(p, Done(f),
           tr \o (IF f.span THEN <<EvApm("span.end")>> ELSE <<>>),
           Resolved)

\* sendData resolved: span?.end() and relay's finally block (lines 88, 92-96).
RelayReturn(p, f, tr) ==
    Update(p, Done(f),
           tr \o (IF f.span THEN <<EvApm("span.end")>> ELSE <<>>)
              \o (IF f.apmTransaction THEN <<EvApm("transaction.end")>> ELSE <<>>),
           Resolved)

\* Faulty variant of SendDataCatch: the error is logged and swallowed.
SendDataCatch_Swallow(p, f, tr, e) ==
    RelayReturn(p, f, tr \o LogError(loggerService, "Failed to send data", e, PluginName))

\* sendData's catch block (lines 171-174), then relay's.
SendDataCatch(p, f, tr, e) ==
    RelayCatch(p, f, tr \o LogError(loggerService, "Failed to send data", e, PluginName), e)

\* relay's try block up to the first await of sendData (lines 84-87, 163-164).
\* Faulty variant of RelayTry: the tracer is used without the ?. guard, so a
\* call without a tracer faults inside the try block.
RelayTry_ApmRequired(p, f, tok, tr) ==
    IF apm
    THEN Update(p, [f EXCEPT !.pc = "send_first", !.token = tok,
                             !.apmTransaction = TRUE, !.span = TRUE],
                tr \o <<EvApm("startTransaction"), EvApm("startSpan"),
                        EvCall("sendData"), makeRequest(tok, f.payload)>>,
                Pending)
    ELSE RelayCatch(p, f, tr, "TypeError: Cannot read properties of undefined")

RelayTry(p, f, tok, tr) ==
    Update(p, [f EXCEPT !.pc = "send_first", !.token = tok,
                        !.apmTransaction = apm, !.span = apm],
           tr \o (IF apm THEN <<EvApm("startTransaction"), EvApm("startSpan")>> ELSE <<>>)
              \o <<EvCall("sendData"), makeRequest(tok, f.payload)>>,
           Pending)

\* ------------------------------------------------------------ fetchToken

\* Faulty variant of FetchThrow: the caller swallows the fetch error and sends
\* with the token it has.
FetchThrow_SendAnyway(p, f, tr, e) ==
    IF f.ret = "relay"
    THEN RelayTry(p, f, f.token, tr)
    ELSE Update(p, [f EXCEPT !.pc = "send_retry"],
                tr \o <<makeRequest(f.token, f.payload)>>, Pending)

\* An error thrown by fetchToken reaches its caller: relay's cache-miss line
\* (line 83, outside the try block) or sendData's try block (line 168).
FetchThrow(p, f, tr, e) ==
    IF f.ret = "relay"
    THEN Update(p, Done(f), tr, Rejected(e))
    ELSE SendDataCatch(p, f, tr, e)

\* Faulty variant of FetchLoop: the loop test is i <= RETRY_ATTEMPTS.
FetchLoop_OffByOne(p, f, k, tr) ==
    IF k <= configuration.RETRY_ATTEMPTS
    THEN Update(p, [f EXCEPT !.pc = "fetch_token", !.i = k], tr \o <<EvPostToken>>, Pending)
    ELSE FetchThrow(p, [f EXCEPT !.i = k], tr, TokenFetchError)

\* The head of fetchToken's for loop with counter value k (lines 115-120, 134).
FetchLoop(p, f, k, tr) ==
    IF k < configuration.RETRY_ATTEMPTS
    THEN Update(p, [f EXCEPT !.pc = "fetch_token", !.i = k], tr \o <<EvPostToken>>, Pending)
    ELSE FetchThrow(p, [f EXCEPT !.i = k], tr, TokenFetchError)

\* fetchToken() called from `caller` (lines 114-120).
FetchCall(p, f, tr, caller) ==
    FetchLoop(p, [f EXCEPT !.ret = caller], 0, tr \o <<EvCall("fetchToken")>>)

\* Faulty variant of FetchReturn: sendData fetches the new token and does not
\* send again.
FetchReturn_NoRetry(p, f, tr, t) ==
    IF f.ret = "relay"
    THEN RelayTry(p, f, t, tr)
    ELSE RelayReturn(p, [f EXCEPT !.newToken = t], tr)

\* Faulty variant of FetchReturn: the retry is made with sendData's `token`.
FetchReturn_RetryOldToken(p, f, tr, t) ==
    IF f.ret = "relay"
    THEN RelayTry(p, f, t, tr)
    ELSE Update(p, [f EXCEPT !.pc = "send_retry", !.newToken = t],
                tr \o <<makeRequest(f.token, f.payload)>>, Pending)

\* fetchToken returned t to its caller: relay goes on to its try block,
\* sendData issues the retry POST with the new token (lines 83-87, 168-169).
FetchReturn(p, f, tr, t) ==
    IF f.ret = "relay"
    THEN RelayTry(p, f, t, tr)
    ELSE Update(p, [f EXCEPT !.pc = "send_retry", !.newToken = t],
                tr \o <<makeRequest(t, f.payload)>>, Pending)

\* Faulty variant of FetchTokenAnswer: fetches are shared: when the cache
\* holds a token by the time the answer comes, that token is returned and the
\* cache is left as it is.
FetchTokenAnswer_ReturnsCached(p, r) ==
    /\ frame[p].pc = "fetch_token"
    /\ UNCHANGED <<configuration, loggerService, apm>>
    /\ LET tr == trace[p] \o <<EvAnswer(AUTH_TOKEN_URL, r)>> IN
       IF r.threw
       THEN /\ Update(p, [frame[p] EXCEPT !.pc = "fetch_delay"],
                      tr \o LogError(loggerService, "Error fetching token", r.error, PluginName)
                         \o <<EvDelay(FETCH_DELAY)>>,
                      Pending)
            /\ UNCHANGED cache
       ELSE IF Truthy(r.data)
       THEN IF CacheGet(cache, AUTH_USERNAME) # undefined
            THEN /\ FetchReturn(p, frame[p], tr, CacheGet(cache, AUTH_USERNAME))
                 /\ UNCHANGED cache
            ELSE /\ cache' = CacheSet(cache, AUTH_USERNAME, r.data)
                 /\ FetchReturn(p, frame[p], tr \o <<EvCacheSet(AUTH_USERNAME, r.data)>>, r.data)
       ELSE /\ Update(p, [frame[p] EXCEPT !.pc = "fetch_delay"],
                      tr \o LogError(loggerService, "Invalid token response", r, PluginName)
                         \o <<EvDelay(FETCH_DELAY)>>,
                      Pending)
            /\ UNCHANGED cache

\* Faulty variant of FetchTokenAnswer: the delay is made between attempts
\* only, so the last failed attempt goes straight to the throw.
FetchTokenAnswer_NoLastDelay(p, r) ==
    /\ frame[p].pc = "fetch_token"
    /\ UNCHANGED <<configuration, loggerService, apm>>
    /\ LET tr == trace[p] \o <<EvAnswer(AUTH_TOKEN_URL, r)>> IN
       IF ~r.threw /\ Truthy(r.data)
       THEN /\ cache' = CacheSet(cache, AUTH_USERNAME, r.data)
            /\ FetchReturn(p, frame[p], tr \o <<EvCacheSet(AUTH_USERNAME, r.data)>>, r.data)
       ELSE /\ UNCHANGED cache
            /\ LET logged == tr \o (IF r.threw
                                    THEN LogError(loggerService, "Error fetching token",
                                                  r.error, PluginName)
                                    ELSE LogError(loggerService, "Invalid token response",
                                                  r, PluginName))
               IN  IF frame[p].i + 1 < configuration.RETRY_ATTEMPTS
                   THEN Update(p, [frame[p] EXCEPT !.pc = "fetch_delay"],
                               logged \o <<EvDelay(FETCH_DELAY)>>, Pending)
                   ELSE FetchLoop(p, frame[p], frame[p].i + 1, logged)

\* Faulty variant of FetchTokenAnswer: the token is returned to the caller and
\* not written to the cache.
FetchTokenAnswer_NoCacheWrite(p, r) ==
    /\ frame[p].pc = "fetch_token"
    /\ UNCHANGED <<configuration, loggerService, apm, cache>>
    /\ LET tr == trace[p] \o <<EvAnswer(AUTH_TOKEN_URL, r)>> IN
       IF r.threw
       THEN Update(p, [frame[p] EXCEPT !.pc = "fetch_delay"],
                   tr \o LogError(loggerService, "Error fetching token", r.error, PluginName)
                      \o <<EvDelay(FETCH_DELAY)>>,
                   Pending)
       ELSE IF Truthy(r.data)
       THEN FetchReturn(p, frame[p], tr \o <<EvCacheSet(AUTH_USERNAME, r.data)>>, r.data)
       ELSE Update(p, [frame[p] EXCEPT !.pc = "fetch_delay"],
                   tr \o LogError(loggerService, "Invalid token response", r, PluginName)
                      \o <<EvDelay(FETCH_DELAY)>>,
                   Pending)

\* Faulty variant of FetchTokenAnswer: a usable token is cached and the loop
\* goes on to its delay and its next attempt.
FetchTokenAnswer_NoReturn(p, r) ==
    /\ frame[p].pc = "fetch_token"
    /\ UNCHANGED <<configuration, loggerService, apm>>
    /\ LET tr == trace[p] \o <<EvAnswer(AUTH_TOKEN_URL, r)>> IN
       IF r.threw
       THEN /\ Update(p, [frame[p] EXCEPT !.pc = "fetch_delay"],
                      tr \o LogError(loggerService, "Error fetching token", r.error, PluginName)
                         \o <<EvDelay(FETCH_DELAY)>>,
                      Pending)
            /\ UNCHANGED cache
       ELSE IF Truthy(r.data)
       THEN /\ cache' = CacheSet(cache, AUTH_USERNAME, r.data)
            /\ Update(p, [frame[p] EXCEPT !.pc = "fetch_delay"],
                      tr \o <<EvCacheSet(AUTH_USERNAME, r.data), EvDelay(FETCH_DELAY)>>,
                      Pending)
       ELSE /\ Update(p, [frame[p] EXCEPT !.pc = "fetch_delay"],
                      tr \o LogError(loggerService, "Invalid token response", r, PluginName)
                         \o <<EvDelay(FETCH_DELAY)>>,
                      Pending)
            /\ UNCHANGED cache

\* The token POST of fetchToken settles (lines 117-132).
FetchTokenAnswer(p, r) ==
    /\ frame[p].pc = "fetch_token"
    /\ UNCHANGED <<configuration, loggerService, apm>>
    /\ LET tr == trace[p] \o <<EvAnswer(AUTH_TOKEN_URL, r)>> IN
       IF r.threw
       THEN /\ Update(p, [frame[p] EXCEPT !.pc = "fetch_delay"],
                      tr \o LogError(loggerService, "Error fetching token", r.error, PluginName)
                         \o <<EvDelay(FETCH_DELAY)>>,
                      Pending)
            /\ UNCHANGED cache
       ELSE IF Truthy(r.data)
       THEN /\ cache' = CacheSet(cache, AUTH_USERNAME, r.data)
            /\ FetchReturn(p, frame[p], tr \o <<EvCacheSet(AUTH_USERNAME, r.data)>>, r.data)
       ELSE /\ Update(p, [frame[p] EXCEPT !.pc = "fetch_delay"],
                      tr \o LogError(loggerService, "Invalid token response", r, PluginName)
                         \o <<EvDelay(FETCH_DELAY)>>,
                      Pending)
            /\ UNCHANGED cache

\* The 5 s timer fires; the loop goes to its next iteration (lines 131-134).
FetchDelayDone(p) ==
    /\ frame[p].pc = "fetch_delay"
    /\ FetchLoop(p, frame[p], frame[p].i + 1, trace[p])
    /\ UNCHANGED <<configuration, cache, loggerService, apm>>

\* ----------------------------------------------------------------- relay

\* Faulty variant of RelayCall: relay refuses to run on an instance whose
\* startup left no token.
RelayCall_Gated(p, data) ==
    /\ Free(p)
    /\ LET token == CacheGet(cache, AUTH_USERNAME)
           f == [IdleFrame EXCEPT !.op = "relay", !.payload = data]
           tr == Log(loggerService, "Relaying data", PluginName)
                 \o <<EvCacheGet(AUTH_USERNAME, token)>>
       IN  IF token = undefined \/ token = null
           THEN Update(p, Done(f), tr, Rejected(InitError))
           ELSE RelayTry(p, f, token, tr)
    /\ UNCHANGED <<configuration, cache, loggerService, apm>>

\* Faulty variant of RelayCall: a fresh token is fetched for every call.
RelayCall_AlwaysFetch(p, data) ==
    /\ Free(p)
    /\ LET token == CacheGet(cache, AUTH_USERNAME)
           f == [IdleFrame EXCEPT !.op = "relay", !.payload = data]
           tr == Log(loggerService, "Relaying data", PluginName)
                 \o <<EvCacheGet(AUTH_USERNAME, token)>>
       IN  FetchCall(p, f, tr, "relay")
    /\ UNCHANGED <<configuration, cache, loggerService, apm>>

\* relay(data) up to its first await (lines 79-87).
RelayCall(p, data) ==
    /\ Free(p)
    /\ LET token == CacheGet(cache, AUTH_USERNAME)
           f == [IdleFrame EXCEPT !.op = "relay", !.payload = data]
           tr == Log(loggerService, "Relaying data", PluginName)
                 \o <<EvCacheGet(AUTH_USERNAME, token)>>
       IN  IF token = undefined \/ token = null
           THEN FetchCall(p, f, tr, "relay")
           ELSE RelayTry(p, f, token, tr)
    /\ UNCHANGED <<configuration, cache, loggerService, apm>>

\* Faulty variant of SendFirstAnswer: a 401 drops the rejected token from the
\* cache before the new one is fetched.
SendFirstAnswer_DropToken(p, r) ==
    /\ frame[p].pc = "send_first"
    /\ LET tr == trace[p] \o <<EvAnswer(DESTINATION_TRANSPORT_URL, r)>> IN
       IF r.threw
       THEN SendDataCatch(p, frame[p], tr, r.error) /\ UNCHANGED cache
       ELSE IF r.status = ERROR_CODE
       THEN /\ FetchCall(p, frame[p],
                         tr \o Log(loggerService, "Unauthorized access - token may be invalid",
                                   PluginName),
                         "sendData")
            /\ cache' = EmptyCache
       ELSE RelayReturn(p, frame[p], tr) /\ UNCHANGED cache
    /\ UNCHANGED <<configuration, loggerService, apm>>

\* Faulty variant of SendFirstAnswer: a status other than 200 and 401 is
\* thrown as an error.
SendFirstAnswer_CheckStatus(p, r) ==
    /\ frame[p].pc = "send_first"
    /\ LET tr == trace[p] \o <<EvAnswer(DESTINATION_TRANSPORT_URL, r)>> IN
       IF r.threw
       THEN SendDataCatch(p, frame[p], tr, r.error)
       ELSE IF r.status = ERROR_CODE
       THEN FetchCall(p, frame[p],
                      tr \o Log(loggerService, "Unauthorized access - token may be invalid",
                                PluginName),
                      "sendData")
       ELSE IF r.status # SUCCESS_CODE
       THEN SendDataCatch(p, frame[p], tr, "Request failed")
       ELSE RelayReturn(p, frame[p], tr)
    /\ UNCHANGED <<configuration, cache, loggerService, apm>>

\* Faulty variant of SendFirstAnswer: every answered POST is taken as a sign
\* of a stale token.
SendFirstAnswer_AlwaysRefresh(p, r) ==
    /\ frame[p].pc = "send_first"
    /\ LET tr == trace[p] \o <<EvAnswer(DESTINATION_TRANSPORT_URL, r)>> IN
       IF r.threw
       THEN SendDataCatch(p, frame[p], tr, r.error)
       ELSE FetchCall(p, frame[p],
                      tr \o Log(loggerService, "Unauthorized access - token may be invalid",
                                PluginName),
                      "sendData")
    /\ UNCHANGED <<configuration, cache, loggerService, apm>>

\* The first destination POST settles (lines 164-174).
SendFirstAnswer(p, r) ==
    /\ frame[p].pc = "send_first"
    /\ LET tr == trace[p] \o <<EvAnswer(DESTINATION_TRANSPORT_URL, r)>> IN
       IF r.threw
       THEN SendDataCatch(p, frame[p], tr, r.error)
       ELSE IF r.status = ERROR_CODE
       THEN FetchCall(p, frame[p],
                      tr \o Log(loggerService, "Unauthorized access - token may be invalid",
                                PluginName),
                      "sendData")
       ELSE RelayReturn(p, frame[p], tr)
    /\ UNCHANGED <<configuration, cache, loggerService, apm>>

\* Faulty variant of SendRetryAnswer: the retry's status is checked too, and a
\* 401 starts another recovery.
SendRetryAnswer_Again(p, r) ==
    /\ frame[p].pc = "send_retry"
    /\ LET tr == trace[p] \o <<EvAnswer(DESTINATION_TRANSPORT_URL, r)>> IN
       IF r.threw
       THEN SendDataCatch(p, frame[p], tr, r.error)
       ELSE IF r.status = ERROR_CODE
       THEN FetchCall(p, frame[p],
                      tr \o Log(loggerService, "Unauthorized access - token may be invalid",
                                PluginName),
                      "sendData")
       ELSE RelayReturn(p, frame[p], tr)
    /\ UNCHANGED <<configuration, cache, loggerService, apm>>

\* The retry POST settles (lines 169-174).
SendRetryAnswer(p, r) ==
    /\ frame[p].pc = "send_retry"
    /\ LET tr == trace[p] \o <<EvAnswer(DESTINATION_TRANSPORT_URL, r)>> IN
       IF r.threw
       THEN SendDataCatch(p, frame[p], tr, r.error)
       ELSE RelayReturn(p, frame[p], tr)
    /\ UNCHANGED <<configuration, cache, loggerService, apm>>

\* ----------------------------------------------------------- specification

RetryBudgets == 1..MaxRetry

Init ==
    /\ configuration \in {[RETRY_ATTEMPTS |-> n] : n \in RetryBudgets}
    /\ cache = EmptyCache
    /\ loggerService = FALSE
    /\ apm = FALSE
    /\ frame = [p \in Procs |-> IdleFrame]
    /\ trace = [p \in Procs |-> <<>>]
    /\ outcome = [p \in Procs |-> NotCalled]

\* The host awaits each call before it makes the next one.
Host == CHOOSE p \in Procs : \A q \in Procs : p <= q

NextInit ==
    \/ \E lg \in BOOLEAN, ap \in BOOLEAN : InitCall(Host, lg, ap)
    \/ \E r \in HealthAnswers : InitHealthAnswer(Host, r)
    \/ InitDelayDone(Host)
    \/ \E r \in TokenAnswers : InitTokenAnswer(Host, r)

NextRelay ==
    \/ \E data \in Payloads : RelayCall(Host, data)
    \/ \E r \in TokenAnswers : FetchTokenAnswer(Host, r)
    \/ FetchDelayDone(Host)
    \/ \E r \in DestAnswers : SendFirstAnswer(Host, r)
    \/ \E r \in DestAnswers : SendRetryAnswer(Host, r)

Next == NextInit \/ NextRelay

\* The plugin under a host that makes one call at a time, in any order.
Spec == Init /\ [][Next]_vars

\* Every request that was awaited settles and every timer that was awaited
\* fires: the continuation of each await of the source runs in the end
\* (lines 40, 45, 47, 117, 132, 164, 169).
Settles ==
    /\ WF_vars(\E r \in HealthAnswers : InitHealthAnswer(Host, r))
    /\ WF_vars(InitDelayDone(Host))
    /\ WF_vars(\E r \in TokenAnswers : InitTokenAnswer(Host, r))
    /\ WF_vars(\E r \in TokenAnswers : FetchTokenAnswer(Host, r))
    /\ WF_vars(FetchDelayDone(Host))
    /\ WF_vars(\E r \in DestAnswers : SendFirstAnswer(Host, r))
    /\ WF_vars(\E r \in DestAnswers : SendRetryAnswer(Host, r))

\* The plugin under the same host, with endpoints and timers that answer.
SpecLive == Init /\ [][Next]_vars /\ Settles

InitDefault ==
    /\ configuration \in {[RETRY_ATTEMPTS |-> n] : n \in RetryBudgets \cup {DEFAULT_RETRY_ATTEMPTS}}
    /\ cache = EmptyCache
    /\ loggerService = FALSE
    /\ apm = FALSE
    /\ frame = [p \in Procs |-> IdleFrame]
    /\ trace = [p \in Procs |-> <<>>]
    /\ outcome = [p \in Procs |-> NotCalled]

\* Startup alone: the host calls init (again after a failure or a success).
SpecInit == InitDefault /\ [][NextInit]_vars

\* The calls that run together have the smallest budget: one attempt for each
\* fetchToken.
ConcBudget == CHOOSE n \in RetryBudgets : \A m \in RetryBudgets : n <= m

\* The instance once startup is over: init has returned, with a token in the
\* cache or (after a failed startup) without one, and with the collaborators
\* it was given. No call is in progress.
InitConc ==
    /\ configuration = [RETRY_ATTEMPTS |-> ConcBudget]
    /\ cache \in {EmptyCache} \cup {CacheSet(EmptyCache, AUTH_USERNAME, t) : t \in Tokens}
    /\ \E given \in BOOLEAN : loggerService = given /\ apm = given
    /\ frame = [p \in Procs |-> IdleFrame]
    /\ trace = [p \in Procs |-> <<>>]
    /\ outcome = [p \in Procs |-> NotCalled]

\* Each caller makes one relay call; the calls interleave at their awaits.
NextConc ==
    \E p \in Procs :
        \/ frame[p].pc = "idle" /\ \E data \in ConcPayloads : RelayCall(p, data)
        \/ \E r \in ConcTokenAnswers : FetchTokenAnswer(p, r)
        \/ FetchDelayDone(p)
        \/ \E r \in ConcDestAnswers : SendFirstAnswer(p, r)
        \/ \E r \in ConcDestAnswers : SendRetryAnswer(p, r)

\* Relay calls in flight together on one instance (Promise.all of relays).
SpecConc == InitConc /\ [][NextConc]_vars

\* Every body the token endpoint can answer with, the falsy ones included.
AnyTokenAnswers ==
    ConcTokenAnswers \cup {Response(SUCCESS_CODE, b) : b \in {null, undefined, ""}}

\* Each caller makes one call, init() or relay, on a fresh instance; the calls
\* interleave at their awaits.
NextAny ==
    \E p \in Procs :
        \/ frame[p].pc = "idle" /\ InitCall(p, FALSE, FALSE)
        \/ frame[p].pc = "idle" /\ \E data \in ConcPayloads : RelayCall(p, data)
        \/ \E r \in HealthAnswers : InitHealthAnswer(p, r)
        \/ InitDelayDone(p)
        \/ \E r \in AnyTokenAnswers : InitTokenAnswer(p, r)
        \/ \E r \in AnyTokenAnswers : FetchTokenAnswer(p, r)
        \/ FetchDelayDone(p)
        \/ \E r \in ConcDestAnswers : SendFirstAnswer(p, r)
        \/ \E r \in ConcDestAnswers : SendRetryAnswer(p, r)

InitAny ==
    /\ configuration = [RETRY_ATTEMPTS |-> ConcBudget]
    /\ cache = EmptyCache
    /\ loggerService = FALSE
    /\ apm = FALSE
    /\ frame = [p \in Procs |-> IdleFrame]
    /\ trace = [p \in Procs |-> <<>>]
    /\ outcome = [p \in Procs |-> NotCalled]

\* init and relay calls in flight together, in any mix.
SpecAny == InitAny /\ [][NextAny]_vars

\* Two relay calls one after the other on one instance: First makes its call,
\* and when that has settled Second makes the next one.
First == Host
Second == CHOOSE p \in Procs : p # First

NextSeq ==
    \/ frame[First].pc = "idle" /\ \E data \in ConcPayloads : RelayCall(First, data)
    \/ \E r \in ConcTokenAnswers : FetchTokenAnswer(First, r)
    \/ FetchDelayDone(First)
    \/ \E r \in ConcDestAnswers : SendFirstAnswer(First, r)
    \/ \E r \in ConcDestAnswers : SendRetryAnswer(First, r)
    \/ /\ frame[First].pc = "done"
       /\ frame[Second].pc = "idle"
       /\ \E data \in ConcPayloads : RelayCall(Second, data)
    \/ \E r \in ConcTokenAnswers : FetchTokenAnswer(Second, r)
    \/ FetchDelayDone(Second)
    \/ \E r \in ConcDestAnswers : SendFirstAnswer(Second, r)
    \/ \E r \in ConcDestAnswers : SendRetryAnswer(Second, r)

\* The instance once startup is over (init was called without collaborators),
\* with any of the retry budgets.
InitSeq ==
    /\ configuration \in {[RETRY_ATTEMPTS |-> n] : n \in RetryBudgets}
    /\ cache \in {EmptyCache} \cup {CacheSet(EmptyCache, AUTH_USERNAME, t) : t \in Tokens}
    /\ loggerService = FALSE
    /\ apm = FALSE
    /\ frame = [p \in Procs |-> IdleFrame]
    /\ trace = [p \in Procs |-> <<>>]
    /\ outcome = [p \in Procs |-> NotCalled]

\* A relay call and the relay call after it, on an instance that has started.
SpecSeq == InitSeq /\ [][NextSeq]_vars

\* Two runs of one call, to compare them: the reference run is made by
\* Reference on an instance that has a logger and a tracer, the twin run by
\* Twin on a second instance that is given any collaborators, or none, and is
\* fed the answers of the reference run.
Reference == Host
Twin == CHOOSE p \in Procs : p # Reference

\* An instance on which init is called is fresh (constructor, lines 21-32); one
\* on which relay is called has been started and holds a token or none.
InitTwin ==
    /\ configuration \in {[RETRY_ATTEMPTS |-> n] : n \in RetryBudgets}
    /\ cache \in {EmptyCache} \cup {CacheSet(EmptyCache, AUTH_USERNAME, t) : t \in Tokens}
    /\ loggerService = TRUE
    /\ apm = TRUE
    /\ frame = [p \in Procs |-> IdleFrame]
    /\ trace = [p \in Procs |-> <<>>]
    /\ outcome = [p \in Procs |-> NotCalled]

\* The answers a call was given, in the order it was given them.
AnswersGiven(tr) == LET T(e) == e.ev = "answer" IN SelectSeq(tr, T)

\* r is the answer the reference run was given at the point the twin run has
\* reached (any answer, should the twin run outlast the reference run).
Replayed(url, r) ==
    LET given == AnswersGiven(trace[Reference])
        k == Len(AnswersGiven(trace[Twin])) + 1
    IN  k <= Len(given) => given[k] = EvAnswer(url, r)

\* What the reference call found in the cache when it started.
CacheAtStart ==
    IF frame[Reference].op = "init" \/ SelectSeq(trace[Reference], LAMBDA e : e.ev = "cache.get")[1].value = undefined
    THEN EmptyCache
    ELSE CacheSet(EmptyCache, AUTH_USERNAME,
                  SelectSeq(trace[Reference], LAMBDA e : e.ev = "cache.get")[1].value)

\* new RestAPIRelayPlugin() for the twin run, brought to the state the
\* reference instance was in when its call started, with collaborators lg, ap.
Construct(lg, ap) ==
    /\ frame[Reference].pc = "done"
    /\ frame[Twin].op = "none"
    /\ frame' = [frame EXCEPT ![Twin] = [IdleFrame EXCEPT !.op = "twin"]]
    /\ cache' = CacheAtStart
    /\ loggerService' = lg
    /\ apm' = ap
    /\ UNCHANGED <<configuration, trace, outcome>>

NextTwin ==
    \/ /\ frame[Reference].pc = "idle"
       /\ \/ cache = EmptyCache /\ InitCall(Reference, TRUE, TRUE)
          \/ \E data \in ConcPayloads : RelayCall(Reference, data)
    \/ \E r \in HealthAnswers : InitHealthAnswer(Reference, r)
    \/ InitDelayDone(Reference)
    \/ \E r \in TokenAnswers : InitTokenAnswer(Reference, r)
    \/ \E r \in TokenAnswers : FetchTokenAnswer(Reference, r)
    \/ FetchDelayDone(Reference)
    \/ \E r \in DestAnswers : SendFirstAnswer(Reference, r)
    \/ \E r \in DestAnswers : SendRetryAnswer(Reference, r)
    \/ \E lg \in BOOLEAN, ap \in BOOLEAN : Construct(lg, ap)
    \/ /\ frame[Twin].op = "twin"
       /\ \/ frame[Reference].op = "init" /\ InitCall(Twin, loggerService, apm)
          \/ frame[Reference].op = "relay" /\ RelayCall(Twin, frame[Reference].payload)
    \/ \E r \in HealthAnswers : Replayed(AUTH_HEALTH_URL, r) /\ InitHealthAnswer(Twin, r)
    \/ InitDelayDone(Twin)
    \/ \E r \in TokenAnswers : Replayed(AUTH_TOKEN_URL, r) /\ InitTokenAnswer(Twin, r)
    \/ \E r \in TokenAnswers : Replayed(AUTH_TOKEN_URL, r) /\ FetchTokenAnswer(Twin, r)
    \/ FetchDelayDone(Twin)
    \/ \E r \in DestAnswers : Replayed(DESTINATION_TRANSPORT_URL, r) /\ SendFirstAnswer(Twin, r)
    \/ \E r \in DestAnswers : Replayed(DESTINATION_TRANSPORT_URL, r) /\ SendRetryAnswer(Twin, r)

\* One call run twice on the same answers, with independent collaborators.
SpecTwin == InitTwin /\ [][NextTwin]_vars

\* ------------------------------------------------------- reading a trace

Count(tr, Test(_)) == Len(SelectSeq(tr, Test))

IsHealthGet(e) == e.ev = "GET" /\ e.url = AUTH_HEALTH_URL
IsTokenPost(e) == e.ev = "POST" /\ e.url = AUTH_TOKEN_URL
IsDestPost(e) == e.ev = "POST" /\ e.url = DESTINATION_TRANSPORT_URL
IsHealthAnswer(e) == e.ev = "answer" /\ e.url = AUTH_HEALTH_URL
IsTokenAnswer(e) == e.ev = "answer" /\ e.url = AUTH_TOKEN_URL
IsDestAnswer(e) == e.ev = "answer" /\ e.url = DESTINATION_TRANSPORT_URL
IsDelay(e) == e.ev = "delay"
IsCacheSet(e) == e.ev = "cache.set"
IsFetchCall(e) == e.ev = "call" /\ e.fn = "fetchToken"
IsSendCall(e) == e.ev = "call" /\ e.fn = "sendData"
IsLog(e) == e.ev = "log"

\* The answers one endpoint gave during a call, oldest first.
AnswersOf(tr, url) == LET T(e) == e.ev = "answer" /\ e.url = url
                          a == SelectSeq(tr, T)
                      IN  [j \in 1..Len(a) |-> a[j].r]

\* A token answer fetchToken and init cannot use: a throw or a falsy body.
FailedTokenAnswer(r) == r.threw \/ ~Truthy(r.data)

InitDone(p) == frame[p].op = "init" /\ frame[p].pc = "done"
RelayDone(p) == frame[p].op = "relay" /\ frame[p].pc = "done"
N == configuration.RETRY_ATTEMPTS

\* ------------------------------------------------------------------- C1

\* Health answers 500 once and 200 afterwards; the token endpoint answers an
\* empty body once and "tok1" afterwards.
C1_Scenario(p) ==
    LET h == AnswersOf(trace[p], AUTH_HEALTH_URL)
        t == AnswersOf(trace[p], AUTH_TOKEN_URL)
    IN  /\ InitDone(p)
        /\ N = DEFAULT_RETRY_ATTEMPTS
        /\ \A j \in 1..Len(h) : h[j] = Response(IF j = 1 THEN 500 ELSE 200, null)
        /\ \A j \in 1..Len(t) : t[j] = Response(200, IF j = 1 THEN null ELSE "tok1")

\* C1 as amended: in the concrete scenario (RETRY_ATTEMPTS = 10, health 500
\* then 200, token body empty then "tok1") init resolves after exactly 3 health
\* probes and exactly 2 token POSTs, and the cache holds "tok1" under the
\* username.
C1_InitScenario ==
    \A p \in Procs : C1_Scenario(p) =>
        /\ outcome[p] = Resolved
        /\ Count(trace[p], IsHealthGet) = 3
        /\ Count(trace[p], IsTokenPost) = 2
        /\ CacheGet(cache, AUTH_USERNAME) = "tok1"

\* C1 as stated: the same scenario ends after exactly 2 health calls.
C1_Original ==
    \A p \in Procs : C1_Scenario(p) =>
        /\ outcome[p] = Resolved
        /\ Count(trace[p], IsHealthGet) = 2
        /\ Count(trace[p], IsTokenPost) = 2
        /\ CacheGet(cache, AUTH_USERNAME) = "tok1"

C1_Witness ==
    \E p \in Procs : C1_Scenario(p) /\ outcome[p] = Resolved
                     /\ Count(trace[p], IsTokenPost) = 2

\* ------------------------------------------------------------------- C4

\* Every health probe of the call was answered, with a status other than 200.
C4_HealthAlwaysFails(p) ==
    LET h == AnswersOf(trace[p], AUTH_HEALTH_URL)
    IN  /\ InitDone(p)
        /\ \A j \in 1..Len(h) : ~h[j].threw /\ h[j].status # 200
        /\ Count(trace[p], IsTokenPost) = 0

\* C4: for every retry budget N >= 1, when the health endpoint always answers
\* a non-200 status, init makes exactly N health probes and no token POST and
\* then rejects with 'Initialization failed: Unable to fetch a valid token'.
C4_HealthExhausted ==
    \A p \in Procs :
        LET h == AnswersOf(trace[p], AUTH_HEALTH_URL) IN
        (InitDone(p) /\ \A j \in 1..Len(h) : ~h[j].threw /\ h[j].status # 200) =>
            /\ Count(trace[p], IsHealthGet) = N
            /\ Len(h) = N
            /\ Count(trace[p], IsTokenPost) = 0
            /\ outcome[p] = Rejected(InitError)

C4_Witness ==
    \E p \in Procs : C4_HealthAlwaysFails(p) /\ N >= 2
                     /\ outcome[p] = Rejected(InitError)

\* ------------------------------------------------- more reading of traces

IsCacheGet(e) == e.ev = "cache.get"
IsStartTransaction(e) == e.ev = "startTransaction"
IsTransactionEnd(e) == e.ev = "transaction.end"
IsStartSpan(e) == e.ev = "startSpan"
IsSpanEnd(e) == e.ev = "span.end"

Indices(tr, Test(_)) == {j \in 1..Len(tr) : Test(tr[j])}
Max(S) == CHOOSE x \in S : \A y \in S : y <= x
Min(S) == CHOOSE x \in S : \A y \in S : x <= y
Last(q) == q[Len(q)]

\* What relay read from the cache at its start.
CacheRead(tr) == SelectSeq(tr, IsCacheGet)[1].value
CacheHit(p) == CacheRead(trace[p]) # undefined
CacheMiss(p) == CacheRead(trace[p]) = undefined

\* The part of a relay trace that belongs to sendData (empty if never called).
SendPart(tr) ==
    IF Indices(tr, IsSendCall) = {} THEN <<>>
    ELSE SubSeq(tr, Min(Indices(tr, IsSendCall)), Len(tr))

\* The events that follow the last call of fetchToken.
LastFetch(tr) == SubSeq(tr, Max(Indices(tr, IsFetchCall)) + 1, Len(tr))
Fetched(tr) == Indices(tr, IsFetchCall) # {}

\* ------------------------------------------------------------------- C2

\* A cached token, a first send answered 401, every later send answered 200,
\* and a token endpoint that does give a token.
C2_Scenario(p) ==
    LET d == AnswersOf(trace[p], DESTINATION_TRANSPORT_URL)
        t == AnswersOf(trace[p], AUTH_TOKEN_URL)
    IN  /\ RelayDone(p)
        /\ CacheHit(p)
        /\ Len(d) >= 1
        /\ \A j \in 1..Len(d) : d[j] = Response(IF j = 1 THEN 401 ELSE 200, null)
        /\ \E j \in 1..Len(t) : ~FailedTokenAnswer(t[j])

\* C2: given a cached token and a destination answering 401 to the first send
\* and 200 to the second, relay calls fetchToken exactly once, makes exactly
\* two destination POSTs and resolves.
C2_RefetchOnceSendTwice ==
    \A p \in Procs : C2_Scenario(p) =>
        /\ Count(trace[p], IsFetchCall) = 1
        /\ Count(trace[p], IsDestPost) = 2
        /\ AnswersOf(trace[p], DESTINATION_TRANSPORT_URL)
             = <<Response(401, null), Response(200, null)>>
        /\ outcome[p] = Resolved

C2_Witness ==
    \E p \in Procs : C2_Scenario(p) /\ outcome[p] = Resolved
                     /\ Count(trace[p], IsTokenPost) = 2

\* ------------------------------------------------------------------- C3

\* C3 as amended: a relay call that reaches its send ends its transaction
\* exactly once when a tracer is set, whether the send resolves or throws
\* (a failed 401 recovery included); a relay call whose token fetch on a
\* cache miss fails starts no transaction and ends none.
C3_TransactionEnded ==
    \A p \in Procs : RelayDone(p) =>
        /\ Count(trace[p], IsTransactionEnd) = Count(trace[p], IsStartTransaction)
        /\ Count(trace[p], IsSendCall) = 1 /\ apm
             => Count(trace[p], IsTransactionEnd) = 1
        /\ Count(trace[p], IsSendCall) = 0
             => /\ CacheMiss(p)
                /\ outcome[p] = Rejected(TokenFetchError)
                /\ Count(trace[p], IsTransactionEnd) = 0

\* C3 as stated: with a tracer set, every relay call, the one whose token fetch
\* on a cache miss fails included, ends a transaction exactly once.
C3_Original ==
    \A p \in Procs : (RelayDone(p) /\ apm) => Count(trace[p], IsTransactionEnd) = 1

C3_Witness ==
    \E p \in Procs : /\ RelayDone(p) /\ apm
                     /\ outcome[p] = Rejected(TokenFetchError)
                     /\ Count(trace[p], IsSendCall) = 1
                     /\ Count(trace[p], IsTransactionEnd) = 1

\* ------------------------------------------------------------------- C5

\* Every token answer of the last fetchToken call was a throw or an empty body.
C5_FetchAlwaysFails(p) ==
    /\ RelayDone(p)
    /\ Fetched(trace[p])
    /\ LET t == AnswersOf(LastFetch(trace[p]), AUTH_TOKEN_URL)
       IN  \A j \in 1..Len(t) : FailedTokenAnswer(t[j])

\* Exactly one delay, of ms milliseconds, lies between each two consecutive
\* token POSTs of seg.
OneDelayBetweenPosts(seg, ms) ==
    LET P == Indices(seg, IsTokenPost) IN
    \A a \in P, b \in P :
        (a < b /\ ~\E c \in P : a < c /\ c < b) =>
            LET between == SelectSeq(SubSeq(seg, a + 1, b - 1), IsDelay)
            IN  between = <<EvDelay(ms)>>

C6_Scenario(p) ==
    LET d == AnswersOf(trace[p], DESTINATION_TRANSPORT_URL)
        t == AnswersOf(trace[p], AUTH_TOKEN_URL)
    IN  /\ RelayDone(p)
        /\ CacheMiss(p)
        /\ \A j \in 1..Len(t) : ~FailedTokenAnswer(t[j])
        /\ \A j \in 1..Len(d) : d[j] = Response(200, null)

\* C6: given an empty cache, a token endpoint that answers with a valid token
\* and a destination that answers 200, relay makes exactly one token POST and
\* then exactly one destination POST, and the cache afterwards holds the
\* fetched token.
C6_MissFetchOnceSendOnce ==
    \A p \in Procs : C6_Scenario(p) =>
        /\ Count(trace[p], IsTokenPost) = 1
        /\ Count(trace[p], IsDestPost) = 1
        /\ Min(Indices(trace[p], IsTokenPost)) < Min(Indices(trace[p], IsDestPost))
        /\ CacheGet(cache, AUTH_USERNAME) = AnswersOf(trace[p], AUTH_TOKEN_URL)[1].data
        /\ outcome[p] = Resolved

C6_Witness ==
    \E p \in Procs : C6_Scenario(p) /\ outcome[p] = Resolved
                     /\ CacheGet(cache, AUTH_USERNAME) = "tok2"

\* ------------------------------------------------------------------- C7

\* The token a destination POST at position j of tr must carry: the last token
\* a token answer delivered before it, else the token read from the cache.
TokenInHand(tr, j) ==
    LET T(e) == IsTokenAnswer(e) /\ ~FailedTokenAnswer(e.r)
        got == SelectSeq(SubSeq(tr, 1, j - 1), T)
    IN  IF got = <<>> THEN CacheRead(tr) ELSE Last(got).r.data

\* C7: every destination POST, the first send and the 401-recovery retry
\* alike, carries Authorization: Bearer <token>, and carries Content-Type:
\* application/json if and only if the payload is a text string; byte
\* sequences (Uint8Array, Buffer) get no Content-Type header.
C7_Headers ==
    \A p \in Procs : \A j \in Indices(trace[p], IsDestPost) :
        LET e == trace[p][j]
            h == e.headers
        IN  /\ DOMAIN h \subseteq {"Authorization", "Content-Type"}
            /\ "Authorization" \in DOMAIN h
            /\ h["Authorization"] = <<"Bearer", TokenInHand(trace[p], j)>>
            /\ TokenInHand(trace[p], j) \in Tokens
            /\ "Content-Type" \in DOMAIN h <=> e.body.type = "string"
            /\ "Content-Type" \in DOMAIN h => h["Content-Type"] = <<"application/json">>
            /\ e.body.type \in {"Uint8Array", "Buffer"} => DOMAIN h = {"Authorization"}

C7_Witness ==
    \E p \in Procs :
        /\ RelayDone(p)
        /\ Count(trace[p], IsDestPost) = 2
        /\ frame[p].payload.type = "Buffer"
        /\ frame[p].token # frame[p].newToken
        /\ Last(SelectSeq(trace[p], IsDestPost)).headers
             = ("Authorization" :> <<"Bearer", frame[p].newToken>>)

\* ------------------------------------------------------------------- C8

Is401(r) == ~r.threw /\ r.status = 401

\* C8: whatever the destination and the token endpoint answer, one sendData
\* call issues at most two destination POSTs and calls fetchToken at most
\* once: a 401 on the first send triggers exactly one re-fetch and, when that
\* returns a token, exactly one retry POST, whose outcome is final.
C8_AtMostOneRetry ==
    \A p \in Procs : frame[p].op = "relay" =>
        LET sp == SendPart(trace[p])
            d == AnswersOf(sp, DESTINATION_TRANSPORT_URL)
            T(e) == IsTokenAnswer(e) /\ ~FailedTokenAnswer(e.r)
        IN  /\ Count(sp, IsSendCall) <= 1
            /\ Count(sp, IsDestPost) <= 2
            /\ Count(sp, IsFetchCall) <= 1
            /\ (Len(d) >= 1 /\ Is401(d[1])) => Count(sp, IsFetchCall) = 1
            /\ (Len(d) >= 1 /\ ~Is401(d[1]))
                 => Count(sp, IsFetchCall) = 0 /\ Count(sp, IsDestPost) = 1
            /\ Count(sp, IsDestPost) = 2 <=> Count(sp, T) = 1
            /\ Len(d) = 2 =>
                 /\ frame[p].pc = "done"
                 /\ outcome[p] = IF d[2].threw THEN Rejected(d[2].error) ELSE Resolved

C8_Witness ==
    \E p \in Procs :
        /\ RelayDone(p)
        /\ AnswersOf(trace[p], DESTINATION_TRANSPORT_URL)
             = <<Response(401, null), Response(401, null)>>
        /\ Count(SendPart(trace[p]), IsTokenPost) = 2

\* ------------------------------------------------------------------- C9

\* C9: no relay call resolves when the last answer it got from the
\* destination was 401.
C9_NoSuccessAfter401 ==
    \A p \in Procs :
        (RelayDone(p) /\ outcome[p] = Resolved) =>
            ~Is401(Last(AnswersOf(trace[p], DESTINATION_TRANSPORT_URL)))

\* ------------------------------------------------------------------ C10

\* sendData's try block threw: a destination POST threw, or the recovery
\* fetchToken used up its budget.
C10_PostThrew(p) ==
    LET d == AnswersOf(SendPart(trace[p]), DESTINATION_TRANSPORT_URL)
    IN  RelayDone(p) /\ Len(d) >= 1 /\ Last(d).threw

C10_RecoveryFetchThrew(p) ==
    LET sp == SendPart(trace[p])
        t == AnswersOf(sp, AUTH_TOKEN_URL)
    IN  /\ RelayDone(p)
        /\ Fetched(sp)
        /\ \A j \in 1..Len(t) : FailedTokenAnswer(t[j])

C10_Thrown(p) ==
    IF C10_PostThrew(p)
    THEN Last(AnswersOf(SendPart(trace[p]), DESTINATION_TRANSPORT_URL)).error
    ELSE TokenFetchError

\* C10: if the first destination POST throws, or the retry POST throws, or the
\* recovery fetchToken throws, sendData logs a send failure and rethrows that
\* error, and relay logs a relay failure and rejects with that same error.
C10_ErrorsRethrown ==
    \A p \in Procs : (C10_PostThrew(p) \/ C10_RecoveryFetchThrew(p)) =>
        LET e == C10_Thrown(p)
            logs == SelectSeq(trace[p], IsLog)
        IN  /\ outcome[p] = Rejected(e)
            /\ loggerService =>
                 /\ Len(logs) >= 2
                 /\ SubSeq(logs, Len(logs) - 1, Len(logs))
                      = LogError(TRUE, "Failed to send data", e, PluginName)
                        \o LogError(TRUE, "Error relaying data", e, PluginName)

C10_Witness ==
    \E p \in Procs :
        /\ loggerService
        /\ C10_RecoveryFetchThrew(p)
        /\ ~C10_PostThrew(p)
        /\ outcome[p] = Rejected(TokenFetchError)
        /\ Count(trace[p], IsLog) >= 4

\* ------------------------------------------------------------------ C11

\* The events of the fetchToken call made at position j of tr: up to the
\* next call of fetchToken, or to the end of the trace.
FetchSegment(tr, j) ==
    LET later == {k \in Indices(tr, IsFetchCall) : k > j}
    IN  SubSeq(tr, j + 1, IF later = {} THEN Len(tr) ELSE Min(later) - 1)

\* C11: when fetchToken uses up its budget its caller does not fetch again: on
\* a cache miss relay rejects with the fetch error and no destination POST is
\* made; in 401 recovery sendData rejects with the fetch error and no retry
\* POST is made; no fetchToken call makes more than N token POSTs.
C11_CallerDoesNotRetry ==
    \A p \in Procs :
        /\ frame[p].op = "relay" =>
             \A j \in Indices(trace[p], IsFetchCall) :
                 Count(FetchSegment(trace[p], j), IsTokenPost) <= N
        /\ C5_FetchAlwaysFails(p) =>
             LET sp == SendPart(trace[p]) IN
             /\ outcome[p] = Rejected(TokenFetchError)
             /\ Count(LastFetch(trace[p]), IsDestPost) = 0
             /\ Count(LastFetch(trace[p]), IsTokenPost) = N
             /\ sp = <<>> =>
                  /\ CacheMiss(p)
                  /\ Count(trace[p], IsFetchCall) = 1
                  /\ Count(trace[p], IsDestPost) = 0
             /\ sp # <<>> =>
                  /\ Count(sp, IsFetchCall) = 1
                  /\ Count(sp, IsDestPost) = 1
                  /\ AnswersOf(sp, DESTINATION_TRANSPORT_URL) = <<Response(401, null)>>

C11_Witness ==
    \E p \in Procs :
        /\ C5_FetchAlwaysFails(p)
        /\ CacheMiss(p)
        /\ N >= 2
        /\ Count(trace[p], IsFetchCall) = 2
        /\ Count(trace[p], IsDestPost) = 1
        /\ outcome[p] = Rejected(TokenFetchError)

\* ------------------------------------------------------------------ C12

\* C12: init stops at the first usable token: the answer that carries it is
\* followed by the cache write of that body under the username and by nothing
\* else (no health probe, token POST or delay), init has resolved, and the
\* cache holds that body.
C12_InitStopsAtFirstToken ==
    \A p \in Procs :
        frame[p].op = "init" =>
            \A j \in Indices(trace[p], IsTokenAnswer) :
                ~FailedTokenAnswer(trace[p][j].r) =>
                    /\ Len(trace[p]) = j + 1
                    /\ trace[p][j + 1] = EvCacheSet(AUTH_USERNAME, trace[p][j].r.data)
                    /\ InitDone(p)
                    /\ outcome[p] = Resolved
                    /\ CacheGet(cache, AUTH_USERNAME) = trace[p][j].r.data
                    /\ Count(trace[p], IsCacheSet) = 1

\* A usable token at the second attempt, with budget left over.
C12_Witness ==
    \E p \in Procs :
        /\ InitDone(p)
        /\ outcome[p] = Resolved
        /\ N >= 3
        /\ Count(trace[p], IsTokenPost) = 2
        /\ ~FailedTokenAnswer(Last(AnswersOf(trace[p], AUTH_TOKEN_URL)))

\* ------------------------------------------------------------------ C13

\* Every health answer so far is a 200 and every token answer so far is a
\* response with an empty body.
C13_HealthyButNoToken(p) ==
    /\ frame[p].op = "init"
    /\ \A j \in Indices(trace[p], IsHealthAnswer) :
           ~trace[p][j].r.threw /\ trace[p][j].r.status = SUCCESS_CODE
    /\ \A j \in Indices(trace[p], IsTokenAnswer) :
           ~trace[p][j].r.threw /\ ~Truthy(trace[p][j].r.data)

\* While that lasts, each empty body is followed by a new health probe until
\* the budget is used up; at the end there were N probes and N token POSTs,
\* no cache write, and init failed with the initialization error.
C13_State ==
    \A p \in Procs :
        C13_HealthyButNoToken(p) =>
            /\ Count(trace[p], IsCacheSet) = 0
            /\ Count(trace[p], IsDelay) = 0
            /\ Count(trace[p], IsHealthGet) <= N
            /\ Count(trace[p], IsTokenPost) = Count(trace[p], IsHealthAnswer)
            /\ ~InitDone(p) =>
                 /\ outcome[p] = Pending
                 /\ Count(trace[p], IsHealthGet) = Count(trace[p], IsTokenAnswer) + 1
            /\ InitDone(p) =>
                 /\ Count(trace[p], IsHealthGet) = N
                 /\ Count(trace[p], IsTokenPost) = N
                 /\ Count(trace[p], IsTokenAnswer) = N
                 /\ outcome[p] = Rejected(InitError)
                 /\ InitError = "Initialization failed: Unable to fetch a valid token"

\* A step of such an init leaves the cache as it was.
C13_CacheStep ==
    \A p \in Procs : C13_HealthyButNoToken(p)' => cache' = cache

\* C13: a 200 from the health endpoint does not end init's loop: with health
\* always 200 and every token body empty, init makes exactly N health probes
\* and N token POSTs, never writes the cache, and fails with 'Initialization
\* failed: Unable to fetch a valid token'.
C13_HealthSuccessDoesNotEndLoop == []C13_State /\ [][C13_CacheStep]_vars

C13_Witness ==
    \E p \in Procs :
        /\ C13_HealthyButNoToken(p)
        /\ InitDone(p)
        /\ N >= 2
        /\ Count(trace[p], IsTokenAnswer) = N
        /\ CacheGet(cache, AUTH_USERNAME) = undefined

\* ------------------------------------------------------------------ C14

\* The positions in seg of the token answers that carry a usable body.
GoodTokenAnswers(seg) ==
    {q \in Indices(seg, IsTokenAnswer) : ~FailedTokenAnswer(seg[q].r)}

\* The first destination POST of seg after position q carries token t.
NextPostCarries(seg, q, t) ==
    LET after == {j \in Indices(seg, IsDestPost) : j > q}
    IN  /\ after # {}
        /\ seg[Min(after)].headers["Authorization"] = <<"Bearer", t>>

\* C14: in a fetchToken call whose first usable body arrives at attempt k
\* (earlier attempts throwing or returning an empty body), k <= N, exactly k
\* token POSTs are made, that body is written to the cache under the username
\* right after the answer, it is what the caller sends with next, no token
\* POST or delay follows it, and the cache holds it.
C14_FetchReturnsFirstToken ==
    \A p \in Procs :
        frame[p].op = "relay" =>
            \A c \in Indices(trace[p], IsFetchCall) :
                LET seg == FetchSegment(trace[p], c)
                    good == GoodTokenAnswers(seg)
                IN  good # {} =>
                    LET q == Min(good)
                        t == seg[q].r.data
                        k == Count(SubSeq(seg, 1, q), IsTokenAnswer)
                    IN  /\ good = {q}
                        /\ k <= N
                        /\ Count(seg, IsTokenPost) = k
                        /\ Count(seg, IsTokenAnswer) = k
                        /\ Count(SubSeq(seg, 1, q), IsDelay) = k - 1
                        /\ seg[q + 1] = EvCacheSet(AUTH_USERNAME, t)
                        /\ Count(SubSeq(seg, q + 1, Len(seg)), IsDelay) = 0
                        /\ Count(seg, IsCacheSet) = 1
                        /\ NextPostCarries(seg, q, t)
                        /\ c = Max(Indices(trace[p], IsFetchCall)) =>
                             CacheGet(cache, AUTH_USERNAME) = t

\* A token at the second attempt after a throw, and one after an empty body.
C14_Witness ==
    \E p \in Procs :
        /\ RelayDone(p)
        /\ N >= 3
        /\ Count(trace[p], IsFetchCall) = 2
        /\ LET a == AnswersOf(trace[p], AUTH_TOKEN_URL)
           IN  /\ Len(a) = 4
               /\ a[1].threw
               /\ ~FailedTokenAnswer(a[2])
               /\ ~a[3].threw /\ a[3].data = null
               /\ ~FailedTokenAnswer(a[4])
               /\ a[2].data # a[4].data

\* ------------------------------------------------------------------ C15

IsThrownAnswer(e) == e.ev = "answer" /\ e.r.threw

\* A thrown health GET or token POST is the last event of its init call, and
\* the call has rejected with the error that was thrown.
C15_State ==
    \A p \in Procs :
        frame[p].op = "init" =>
            \A j \in Indices(trace[p], IsThrownAnswer) :
                /\ j = Len(trace[p])
                /\ InitDone(p)
                /\ outcome[p] = Rejected(trace[p][j].r.error)

\* The step in which the request throws leaves the cache as it was.
C15_CacheStep ==
    \A p \in Procs :
        (/\ frame'[p].op = "init"
         /\ trace'[p] # trace[p]
         /\ trace'[p] # <<>>
         /\ IsThrownAnswer(Last(trace'[p]))) => cache' = cache

\* C15: a transport error thrown inside init is not retried: init rejects at
\* once with that error, with no further health probe, token POST or delay,
\* and the cache is left unchanged, whatever budget remains.
C15_InitThrowNotRetried == []C15_State /\ [][C15_CacheStep]_vars

\* The token POST of the second iteration throws with budget left over, in a
\* later init call that starts with a token in the cache.
C15_Witness ==
    \E p \in Procs :
        /\ InitDone(p)
        /\ N >= 3
        /\ Count(trace[p], IsHealthGet) = 2
        /\ Count(trace[p], IsTokenPost) = 1
        /\ IsThrownAnswer(Last(trace[p]))
        /\ outcome[p] = Rejected(TokenNetworkError)
        /\ CacheGet(cache, AUTH_USERNAME) \in Tokens

\* The first health GET throws with budget left over.
C15_WitnessHealth ==
    \E p \in Procs :
        /\ InitDone(p)
        /\ N >= 2
        /\ Count(trace[p], IsHealthGet) = 1
        /\ outcome[p] = Rejected(HealthNetworkError)

\* ------------------------------------------------------------------ C20

\* The log lines that only announce that a call has started.
EntryMessages == {"init() called, fetching auth token", "Relaying data"}

\* A log or error event that carries the plugin's source tag and reports
\* something other than the start of the call.
IsFailureLog(e) ==
    /\ IsLog(e)
    /\ e.source = PluginName
    /\ e.message \notin EntryMessages

\* C20: no error is discarded silently: whenever init or relay has rejected
\* and a logger was supplied, the call emitted at least one log or error event
\* with the plugin's source tag that reports the failure.
C20_FailuresLogged ==
    \A p \in Procs :
        (/\ InitDone(p) \/ RelayDone(p)
         /\ outcome[p].state = "rejected"
         /\ loggerService) => Count(trace[p], IsFailureLog) >= 1

\* Where it fails: init with a logger, rejected by a thrown request, has
\* logged nothing but its entry line.
C20_SilentInitThrow ==
    \E p \in Procs :
        /\ InitDone(p)
        /\ loggerService
        /\ outcome[p] = Rejected(HealthNetworkError)
        /\ SelectSeq(trace[p], IsLog) =
               Log(TRUE, "init() called, fetching auth token", PluginName)

\* ------------------------------------------------------------------ C17

\* Sum over the calls in S of the events of each that pass Test.
TotalOver(S, Test(_)) ==
    LET upTo[n \in 0..NumProcs] ==
            IF n = 0 THEN 0
            ELSE upTo[n - 1] + (IF n \in S THEN Count(trace[n], Test) ELSE 0)
    IN  upTo[NumProcs]

\* The values the calls have written to the cache.
Written == UNION {{trace[w][j].value : j \in Indices(trace[w], IsCacheSet)} : w \in Procs}

\* relay call p has started and read an empty cache.
C17_Missed(p) == frame[p].op = "relay" /\ CacheMiss(p)

\* Two calls that both read an empty cache each run their own fetchToken with
\* at least one token POST; once both fetches have returned a token, each has
\* written its token to the cache and made its own destination POST.
C17_State ==
    \A p \in Procs, q \in Procs :
        (p # q /\ C17_Missed(p) /\ C17_Missed(q)) =>
            /\ Count(trace[p], IsFetchCall) >= 1
            /\ Count(trace[p], IsTokenPost) >= 1
            /\ TotalOver({p, q}, IsTokenPost) >= 2
            /\ (SendPart(trace[p]) # <<>> /\ SendPart(trace[q]) # <<>>) =>
                 /\ Count(trace[p], IsCacheSet) >= 1
                 /\ Count(trace[p], IsDestPost) >= 1
                 /\ TotalOver({p, q}, IsCacheSet) >= 2
                 /\ TotalOver({p, q}, IsDestPost) >= 2
                 /\ CacheGet(cache, AUTH_USERNAME) \in Written

\* The calls that write the cache in this step.
Writers == {p \in Procs : Count(trace'[p], IsCacheSet) > Count(trace[p], IsCacheSet)}

\* Last writer wins: a step in which a fetch completes leaves its token in the
\* cache whatever was there, and no other step changes the cache.
C17_LastWriterWins ==
    IF Writers = {} THEN cache' = cache
    ELSE \A p \in Writers :
             CacheGet(cache', AUTH_USERNAME) = Last(SelectSeq(trace'[p], IsCacheSet)).value

\* C17: concurrent cache misses are not coalesced: each of two relay calls
\* that read an empty cache runs its own fetchToken (at least 2 token POSTs
\* and 2 destination POSTs in total), each writes its token to the cache, and
\* the cache ends with the token of the fetch that completed last.
C17_MissesNotCoalesced == []C17_State /\ [][C17_LastWriterWins]_vars

\* Both calls missed, fetched different tokens and finished; the cache holds
\* the token of the call that started first, whose fetch completed last.
C17_Witness ==
    \E p \in Procs, q \in Procs :
        /\ p < q
        /\ RelayDone(p) /\ RelayDone(q)
        /\ CacheMiss(p) /\ CacheMiss(q)
        /\ outcome[p] = Resolved /\ outcome[q] = Resolved
        /\ SelectSeq(trace[p], IsCacheSet) = <<EvCacheSet(AUTH_USERNAME, "tok1")>>
        /\ SelectSeq(trace[q], IsCacheSet) = <<EvCacheSet(AUTH_USERNAME, "tok2")>>
        /\ frame[q].token = "tok2"
        /\ CacheGet(cache, AUTH_USERNAME) = "tok1"

\* ------------------------------------------------------------------ C18

\* relay call p found a token in the cache and every answer the destination
\* has given it so far is a 200.
C18_HitAnd200(p) ==
    /\ frame[p].op = "relay"
    /\ CacheHit(p)
    /\ \A j \in Indices(trace[p], IsDestAnswer) :
           ~trace[p][j].r.threw /\ trace[p][j].r.status = SUCCESS_CODE

\* C18: with a token in the cache and a destination that answers 200, k
\* concurrent relay calls make exactly k destination POSTs and no token POST
\* under every interleaving, and all k calls resolve.
C18_ConcurrentHits ==
    \A S \in SUBSET Procs :
        (\A p \in S : C18_HitAnd200(p)) =>
            /\ TotalOver(S, IsDestPost) = Cardinality(S)
            /\ TotalOver(S, IsTokenPost) = 0
            /\ TotalOver(S, IsFetchCall) = 0
            /\ \A p \in S :
                   IF Count(trace[p], IsDestAnswer) = 0
                   THEN outcome[p] = Pending
                   ELSE RelayDone(p) /\ outcome[p] = Resolved

\* Every one of the concurrent calls has finished that way.
C18_Witness ==
    /\ \A p \in Procs : C18_HitAnd200(p) /\ RelayDone(p) /\ outcome[p] = Resolved
    /\ TotalOver(Procs, IsDestPost) = NumProcs
    /\ NumProcs >= 2

\* ------------------------------------------------------------------ C19

\* A relay call that read a token from the cache has sent its first
\* destination POST with exactly that token, and has made a token POST only
\* after the destination answered that POST with 401.
C19_State ==
    \A p \in Procs :
        (frame[p].op = "relay" /\ CacheHit(p)) =>
            LET tr == trace[p]
                posts == Indices(tr, IsDestPost)
                answers == Indices(tr, IsDestAnswer)
            IN  /\ CacheRead(tr) \in Tokens
                /\ posts # {}
                /\ tr[Min(posts)].headers["Authorization"] = <<"Bearer", CacheRead(tr)>>
                /\ Count(SubSeq(tr, 1, Min(posts)), IsTokenPost) = 0
                /\ Count(tr, IsTokenPost) > 0 =>
                     /\ answers # {}
                     /\ Is401(tr[Min(answers)].r)
                     /\ \A j \in Indices(tr, IsTokenPost) : j > Min(answers)

\* The step that starts a relay call while the cache holds a token issues the
\* destination POST with the token the cache holds.
C19_StartStep ==
    \A p \in Procs :
        (/\ Free(p)
         /\ frame'[p].op = "relay"
         /\ frame'[p].pc # frame[p].pc
         /\ CacheGet(cache, AUTH_USERNAME) \in Tokens) =>
            /\ frame'[p].pc = "send_first"
            /\ IsDestPost(Last(trace'[p]))
            /\ Last(trace'[p]).headers["Authorization"] =
                   <<"Bearer", CacheGet(cache, AUTH_USERNAME)>>
            /\ Count(trace'[p], IsTokenPost) = 0

\* C19: cached-token reuse: when the cache holds a token at the start of a
\* relay call, the first destination POST of the call carries exactly that
\* token, and the call makes no token POST unless the destination answers 401.
C19_CachedTokenReused == []C19_State /\ [][C19_StartStep]_vars

\* A call that found "tok2" in the cache, was answered 401, fetched again
\* and sent again.
C19_Witness ==
    \E p \in Procs :
        /\ RelayDone(p)
        /\ CacheRead(trace[p]) = "tok2"
        /\ Count(trace[p], IsDestPost) = 2
        /\ Count(trace[p], IsTokenPost) >= 1
        /\ outcome[p] = Resolved

\* ------------------------------------------------------------------ C16

\* What a run does apart from logging and tracing: its requests, the answers
\* it is given, its timers, its cache reads and writes and its internal calls.
IsControlFlow(e) ==
    e.ev \in {"GET", "POST", "answer", "delay", "cache.set", "cache.get", "call"}
Strip(tr) == SelectSeq(tr, IsControlFlow)

\* The cache after the writes of tr, from the state c.
CacheAfter(c, tr) ==
    LET w == SelectSeq(tr, IsCacheSet)
    IN  IF w = <<>> THEN c ELSE CacheSet(c, AUTH_USERNAME, Last(w).value)

TwinRunning == frame[Twin].op \in {"init", "relay"}

\* C16: the absence of the logger and/or the tracer never alters control flow:
\* on the answers given to a run that has both, a run of the same call with
\* any of them missing issues the same requests and cache writes in the same
\* order, step for step, and ends with the same outcome (resolved, or rejected
\* with the same error) and the same cache; it never faults for lack of them.
C16_SameControlFlow ==
    TwinRunning =>
        LET a == Strip(trace[Reference])
            b == Strip(trace[Twin])
        IN  /\ frame[Twin].op = frame[Reference].op
            /\ Len(b) <= Len(a)
            /\ b = SubSeq(a, 1, Len(b))
            /\ frame[Twin].pc = "done" => b = a
            /\ (b = a /\ frame[Twin].pc # "done") =>
                 frame[Twin].pc \in {"init_delay", "fetch_delay"}
            /\ frame[Twin].pc = "done" =>
                 /\ outcome[Twin] = outcome[Reference]
                 /\ cache = CacheAfter(CacheAtStart, trace[Reference])
            /\ frame[Twin].pc # "done" => outcome[Twin] = Pending
            /\ ~loggerService => Count(trace[Twin], IsLog) = 0
            /\ ~apm => Len(trace[Twin]) = Len(b) + Count(trace[Twin], IsLog)

\* A relay without logger and tracer that went through a 401 recovery and
\* ended as the run with both of them did.
C16_Witness ==
    /\ TwinRunning
    /\ RelayDone(Twin)
    /\ ~loggerService /\ ~apm
    /\ Count(trace[Reference], IsLog) > 0
    /\ Count(trace[Reference], IsStartTransaction) = 1
    /\ Len(trace[Twin]) < Len(trace[Reference])
    /\ Count(trace[Twin], IsDestPost) = 2
    /\ Count(trace[Twin], IsTokenPost) >= 2

\* An init without logger and tracer that used up its budget.
C16_WitnessInit ==
    /\ InitDone(Twin)
    /\ ~loggerService /\ ~apm
    /\ outcome[Twin] = Rejected(InitError)
    /\ Count(trace[Reference], IsLog) > 0
    /\ Count(trace[Twin], IsLog) = 0

\* ------------------------------------------------------------------ C21

\* C21: the payload is passed through unmodified: the body of every
\* destination POST of a relay call, the first send and the 401-recovery retry
\* alike, is the payload value given to relay, text or bytes.
C21_PayloadUnmodified ==
    \A p \in Procs :
        frame[p].op = "relay" =>
            /\ frame[p].payload \in Payloads
            /\ \A j \in Indices(trace[p], IsDestPost) :
                   trace[p][j].body = frame[p].payload

\* A byte payload sent twice: first send and retry.
C21_Witness ==
    \E p \in Procs :
        /\ RelayDone(p)
        /\ frame[p].payload.type = "Uint8Array"
        /\ Count(trace[p], IsDestPost) = 2
        /\ outcome[p] = Resolved

\* ------------------------------------------------------------------ C22

\* C22: relay JSON-stringifies a payload that is neither a string nor a
\* Buffer (a Uint8Array that is not a Buffer among them) before it is sent;
\* strings and Buffers are sent as they are.
C22_Stringified ==
    \A p \in Procs :
        frame[p].op = "relay" =>
            \A j \in Indices(trace[p], IsDestPost) :
                trace[p][j].body = preparePayload(frame[p].payload)

\* Where it fails: a Uint8Array that reaches the destination as it was given.
C22_RawBytesSent ==
    \E p \in Procs :
        /\ RelayDone(p)
        /\ frame[p].payload.type = "Uint8Array"
        /\ \E j \in Indices(trace[p], IsDestPost) :
               trace[p][j].body = frame[p].payload

\* ------------------------------------------------------------------ C23

\* C23: init retries the health check up to the configured number of times,
\* with a 5-second delay between health-check retries.
C23_FiveSecondHealthDelay ==
    \A p \in Procs :
        frame[p].op = "init" =>
            /\ Count(trace[p], IsHealthGet) <= N
            /\ \A j \in Indices(trace[p], IsDelay) :
                   trace[p][j].ms = README_HEALTH_DELAY

\* ------------------------------------------------------------------ C24

\* C24: fetchToken makes up to 5 attempts, with 500 ms delays between them.
C24_FiveAttempts500ms ==
    \A p \in Procs :
        frame[p].op = "relay" =>
            \A c \in Indices(trace[p], IsFetchCall) :
                LET seg == FetchSegment(trace[p], c)
                IN  /\ Count(seg, IsTokenPost) <= README_FETCH_ATTEMPTS
                    /\ \A j \in Indices(seg, IsDelay) : seg[j].ms = README_FETCH_DELAY

\* ------------------------------------------------------------------ C25

\* The bodies of the responses the token endpoint has given to any call.
TokenBodies ==
    UNION {{trace[w][j].r.data : j \in {i \in Indices(trace[w], IsTokenAnswer) :
                                           ~trace[w][i].r.threw}} : w \in Procs}

\* The cache has no entry, or one entry under the username whose value is
\* truthy and was the body of a token-endpoint response.
C25_State ==
    /\ DOMAIN cache \subseteq {AUTH_USERNAME}
    /\ AUTH_USERNAME \in DOMAIN cache =>
         /\ cache[AUTH_USERNAME] \notin {null, undefined, ""}
         /\ cache[AUTH_USERNAME] \in TokenBodies

\* The cache changes only in a step in which a call is given a token response,
\* and then to the body of that response.
C25_Step ==
    cache' # cache =>
        \E p \in Procs :
            /\ trace'[p] # trace[p]
            /\ \E j \in Indices(trace'[p], IsTokenAnswer) :
                   /\ j > Len(trace[p])
                   /\ ~trace'[p][j].r.threw
                   /\ cache' = CacheSet(cache, AUTH_USERNAME, trace'[p][j].r.data)

\* C25: token-cache invariant: under any interleaving of init and relay calls
\* (fetchToken within them), the cache entry for the username is absent or is
\* a non-empty value that was the body of a token-endpoint response; a falsy
\* token is never stored.
C25_CacheInvariant == []C25_State /\ [][C25_Step]_vars

\* An init and a relay in flight together were each answered with a falsy
\* body and with a token; the cache holds a token.
C25_Witness ==
    \E p \in Procs, q \in Procs :
        /\ InitDone(p) /\ RelayDone(q)
        /\ "" \in TokenBodies
        /\ null \in TokenBodies
        /\ CacheGet(cache, AUTH_USERNAME) \in Tokens

\* ------------------------------------------------------------------ C26

\* The token the first destination POST of tr was sent with.
FirstSent(tr) == tr[Min(Indices(tr, IsDestPost))].headers["Authorization"][2]

\* The first call was answered 401, re-fetched a token and has settled; the
\* next call has started.
C26_AfterRecovery ==
    /\ RelayDone(First)
    /\ Count(SendPart(trace[First]), IsFetchCall) = 1
    /\ GoodTokenAnswers(SendPart(trace[First])) # {}
    /\ frame[Second].op = "relay"

\* The token the first call re-fetched.
Refetched ==
    LET sp == SendPart(trace[First]) IN sp[Min(GoodTokenAnswers(sp))].r.data

C28_WitnessRetry ==
    \E p \in Procs :
        /\ RelayDone(p)
        /\ AnswersOf(trace[p], DESTINATION_TRANSPORT_URL)
               = <<Response(401, null), Response(500, null)>>
        /\ outcome[p] = Resolved

\* ------------------------------------------------------------------ C29

\* A trace without its log lines.
NotLog(e) == ~IsLog(e)
Steps(tr) == SelectSeq(tr, NotLog)

IsFailedProbe(e) == IsHealthAnswer(e) /\ ~e.r.threw /\ e.r.status # SUCCESS_CODE
IsInvalidToken(e) == IsTokenAnswer(e) /\ ~e.r.threw /\ ~Truthy(e.r.data)

IsHealthyProbe(e) == IsHealthAnswer(e) /\ ~e.r.threw /\ e.r.status = SUCCESS_CODE

\* C30: init ordering: in one init call every token POST comes directly after
\* a health probe of the same iteration that answered 200; there are never
\* more token POSTs than 200 health answers; each iteration of the budget
\* starts with a health probe and nothing else uses the budget up, so there
\* are at most N health probes and at most N token POSTs.
C30_InitOrdering ==
    \A p \in Procs :
        frame[p].op = "init" =>
            LET st == Steps(trace[p]) IN
            /\ \A j \in Indices(st, IsTokenPost) :
                   /\ j >= 3
                   /\ IsHealthyProbe(st[j - 1])
                   /\ IsHealthGet(st[j - 2])
            /\ \A j \in Indices(st, IsHealthyProbe) :
                   j < Len(st) /\ IsTokenPost(st[j + 1])
            /\ Count(st, IsTokenPost) <= Count(st, IsHealthyProbe)
            /\ Count(st, IsHealthGet) <= N
            /\ Count(st, IsTokenPost) <= N
            /\ Count(st, IsTokenPost) <= Count(st, IsHealthGet)
            /\ ~InitDone(p) => Count(st, IsHealthGet) = frame[p].i + 1
            /\ outcome[p] = Rejected(InitError) => Count(st, IsHealthGet) = N

\* A run that used the whole budget, with failed probes and token POSTs mixed.
C30_Witness ==
    \E p \in Procs :
        /\ InitDone(p)
        /\ N >= 3
        /\ Count(trace[p], IsHealthGet) = N
        /\ Count(trace[p], IsFailedProbe) >= 1
        /\ Count(trace[p], IsTokenPost) >= 2
        /\ Count(trace[p], IsTokenPost) < N

\* ------------------------------------------------------------------ C31

\* Where the first event of its kind is in a trace (0 if there is none).
FirstIndex(tr, Test(_)) == IF Indices(tr, Test) = {} THEN 0 ELSE Min(Indices(tr, Test))

\* C31: with a tracer supplied, relay starts the transaction and then the
\* span only after the token has been resolved and before the destination
\* POST; when sendData resolves the span is ended exactly once and before the
\* transaction is ended; when sendData throws the span is never ended while
\* the transaction still is.
C31_TracerOrdering ==
    \A p \in Procs :
        (frame[p].op = "relay" /\ apm) =>
            LET tr == Steps(trace[p])
                s == FirstIndex(tr, IsStartTransaction)
                sent == Count(tr, IsSendCall) = 1
            IN  /\ Count(tr, IsStartTransaction) <= 1
                /\ Count(tr, IsStartSpan) <= 1
                /\ Count(tr, IsStartTransaction) = Count(tr, IsSendCall)
                /\ Count(tr, IsStartSpan) = Count(tr, IsSendCall)
                /\ s = 0 => Count(tr, IsDestPost) = 0
                /\ s # 0 =>
                     \* the token is in hand: read from the cache, or fetched
                     /\ s > 1
                     /\ \/ IsCacheGet(tr[s - 1]) /\ tr[s - 1].value = frame[p].token
                        \/ /\ IsCacheSet(tr[s - 1]) /\ tr[s - 1].value = frame[p].token
                           /\ CacheRead(tr) = undefined
                     /\ Truthy(frame[p].token)
                     /\ \A j \in 1..(s - 1) : ~IsDestPost(tr[j])
                     \* transaction, span, sendData, POST
                     /\ s + 3 <= Len(tr)
                     /\ IsStartSpan(tr[s + 1])
                     /\ IsSendCall(tr[s + 2])
                     /\ tr[s + 3] = makeRequest(frame[p].token, frame[p].payload)
                /\ (RelayDone(p) /\ outcome[p] = Resolved) =>
                     /\ sent
                     /\ Count(tr, IsSpanEnd) = 1
                     /\ Count(tr, IsTransactionEnd) = 1
                     /\ IsSpanEnd(tr[Len(tr) - 1])
                     /\ IsTransactionEnd(tr[Len(tr)])
                /\ (RelayDone(p) /\ outcome[p].state = "rejected" /\ sent) =>
                     /\ Count(tr, IsSpanEnd) = 0
                     /\ Count(tr, IsTransactionEnd) = 1
                     /\ IsTransactionEnd(tr[Len(tr)])
                /\ ~RelayDone(p) =>
                     Count(tr, IsSpanEnd) = 0 /\ Count(tr, IsTransactionEnd) = 0

\* A traced relay whose send threw after a cache miss was made good by
\* fetchToken.
C31_Witness ==
    \E p \in Procs :
        /\ RelayDone(p) /\ apm
        /\ CacheMiss(p)
        /\ outcome[p] = Rejected(SendNetworkError)
        /\ Count(trace[p], IsStartSpan) = 1
        /\ Count(trace[p], IsSpanEnd) = 0
        /\ Count(trace[p], IsTransactionEnd) = 1

\* A traced relay that resolved after a 401 recovery.
C31_WitnessResolved ==
    \E p \in Procs :
        /\ RelayDone(p) /\ apm
        /\ outcome[p] = Resolved
        /\ Count(trace[p], IsDestPost) = 2
        /\ Count(trace[p], IsSpanEnd) = 1

\* ------------------------------------------------------------------ C32

\* C32: transactions are balanced, under concurrent relay calls too: a relay
\* call that has completed, resolved or rejected, has ended as many
\* transactions as it started, and at most one; a relay call whose token fetch
\* on a cache miss failed started no transaction and no span. While a call
\* runs it has ended none yet, and over all the calls together the
\* transactions still open are those of the calls that are inside sendData.
C32_TransactionsBalanced ==
    /\ \A p \in Procs :
           frame[p].op = "relay" =>
               LET tr == trace[p]
                   started == Count(tr, IsStartTransaction)
                   ended == Count(tr, IsTransactionEnd)
               IN  /\ started <= 1
                   /\ ended <= started
                   /\ started = (IF apm THEN Count(tr, IsSendCall) ELSE 0)
                   /\ RelayDone(p) => ended = started
                   /\ ~RelayDone(p) => ended = 0
                   /\ (RelayDone(p) /\ CacheMiss(p) /\ Count(tr, IsCacheSet) = 0) =>
                        /\ outcome[p] = Rejected(TokenFetchError)
                        /\ started = 0
                        /\ Count(tr, IsStartSpan) = 0
                        /\ Count(tr, IsSendCall) = 0
    /\ TotalOver(Procs, IsStartTransaction) - TotalOver(Procs, IsTransactionEnd)
         = Cardinality({p \in Procs : /\ frame[p].pc \notin {"idle", "done"}
                                      /\ Count(trace[p], IsStartTransaction) = 1})

\* Concurrent traced calls that have all completed: one was rejected inside
\* sendData, another resolved, each with its one transaction ended.
C32_Witness ==
    /\ apm
    /\ \A p \in Procs : RelayDone(p) /\ Count(trace[p], IsTransactionEnd) = 1
    /\ \E p \in Procs : outcome[p].state = "rejected"
    /\ \E p \in Procs : outcome[p] = Resolved
    /\ TotalOver(Procs, IsStartTransaction) = NumProcs

\* A traced call whose fetch on a miss failed, beside one that sent.
C32_WitnessFetchFailed ==
    /\ apm
    /\ \E p \in Procs : /\ RelayDone(p) /\ CacheMiss(p)
                        /\ Count(trace[p], IsCacheSet) = 0
                        /\ Count(trace[p], IsStartTransaction) = 0
    /\ \E p \in Procs : RelayDone(p) /\ Count(trace[p], IsTransactionEnd) = 1

\* ------------------------------------------------------------------ C33

IsFailedTokenAnswer(e) == IsTokenAnswer(e) /\ FailedTokenAnswer(e.r)

\* In every fetchToken call of a relay call, each attempt that did not return
\* is directly followed by one 5000 ms delay, the Nth attempt included; the
\* delays are as many as the failed attempts; and while the last delay runs
\* the call has not failed yet.
C33_State ==
    \A p \in Procs :
        frame[p].op = "relay" =>
            LET st == Steps(trace[p]) IN
            \A j \in Indices(st, IsFetchCall) :
                LET seg == FetchSegment(st, j)
                    failed == Indices(seg, IsFailedTokenAnswer)
                IN  /\ \A k \in failed : k < Len(seg) /\ seg[k + 1] = EvDelay(FETCH_DELAY)
                    /\ \A k \in Indices(seg, IsDelay) : k > 1 /\ k - 1 \in failed
                    /\ Count(seg, IsDelay) = Cardinality(failed)
                    /\ Cardinality(failed) <= N
                    /\ Cardinality(failed) = N =>
                         /\ Count(seg, IsTokenPost) = N
                         /\ Count(seg, IsDelay) = N
                         /\ \/ frame[p].pc = "fetch_delay" /\ outcome[p] = Pending
                            \/ RelayDone(p) /\ outcome[p] = Rejected(TokenFetchError)
                         /\ \A k \in (Max(Indices(seg, IsDelay)) + 1)..Len(seg) :
                                IsTransactionEnd(seg[k])
                    /\ (Cardinality(failed) < N /\ j = Max(Indices(st, IsFetchCall))) =>
                         outcome[p] # Rejected(TokenFetchError)

\* The error of an exhausted fetchToken is thrown by the step in which the
\* last of the N delays elapses.
C33_Step ==
    \A p \in Procs :
        (outcome'[p] = Rejected(TokenFetchError) /\ outcome[p] # Rejected(TokenFetchError)) =>
            /\ frame[p].pc = "fetch_delay"
            /\ outcome[p] = Pending
            /\ IsDelay(Last(Steps(trace[p])))
            /\ Count(LastFetch(trace[p]), IsDelay) = N
            /\ Count(LastFetch(trace'[p]), IsDelay) = N
            /\ Count(LastFetch(trace'[p]), IsTokenPost) = N

IsGoodTokenAnswer(e) == IsTokenAnswer(e) /\ ~FailedTokenAnswer(e.r)

\* The cache has the one entry at most; an init call has written it once if it
\* resolved and not at all otherwise; a relay call has written it once for
\* each token its fetchToken calls were given, and a fetchToken call that used
\* up its budget has written nothing.
C34_State ==
    /\ DOMAIN cache \subseteq {AUTH_USERNAME}
    /\ \A p \in Procs :
           /\ frame[p].op = "init" =>
                Count(trace[p], IsCacheSet) = (IF outcome[p] = Resolved THEN 1 ELSE 0)
           /\ frame[p].op = "relay" =>
                /\ Count(trace[p], IsCacheSet) = Count(trace[p], IsGoodTokenAnswer)
                /\ \A j \in Indices(trace[p], IsFetchCall) :
                       LET seg == FetchSegment(trace[p], j) IN
                       /\ Count(seg, IsCacheSet) <= 1
                       /\ Count(seg, IsFailedTokenAnswer) = N => Count(seg, IsCacheSet) = 0

\* A step changes the cache only by the write of an init call that succeeds
\* in it or of a fetchToken call that succeeds in it; the step in which an
\* init call or a fetchToken call fails, and the step in which a destination
\* POST settles, whatever its outcome, leave the cache as it was.
C34_Step ==
    /\ Writers = {} => cache' = cache
    /\ \A p \in Writers :
           LET w == Last(SelectSeq(trace'[p], IsCacheSet)) IN
           /\ cache' = CacheSet(cache, AUTH_USERNAME, w.value)
           /\ Truthy(w.value)
           /\ \/ /\ frame[p].pc = "init_token"
                 /\ outcome'[p] = Resolved
                 /\ Last(trace'[p]) = w
              \/ /\ frame[p].pc = "fetch_token"
                 /\ frame'[p].pc \in {"send_first", "send_retry"}
                 /\ outcome'[p] = Pending
    /\ \A p \in Procs :
           /\ (outcome[p] = Pending /\ outcome'[p].state = "rejected") => cache' = cache
           /\ (frame[p].pc \in {"send_first", "send_retry"} /\ frame'[p] # frame[p]) =>
                cache' = cache
           /\ (frame[p].pc \in {"init_health", "init_delay", "fetch_delay"}
               /\ frame'[p] # frame[p]) => cache' = cache

\* C34: failure leaves the cache unchanged: an init call that fails (budget
\* used up or an error thrown), a fetchToken call that uses up its budget and
\* every destination POST, whatever its outcome, leave the cache entry exactly
\* as it was; the only writes to the cache are the one at init success and the
\* one at each fetchToken success.
C34_FailureLeavesCache == []C34_State /\ [][C34_Step]_vars

\* A relay call that found a token, was answered 401 and could not get a new
\* one: the cache still holds the token the call started with.
C34_Witness ==
    \E p \in Procs :
        /\ RelayDone(p)
        /\ CacheHit(p)
        /\ outcome[p] = Rejected(TokenFetchError)
        /\ Count(trace[p], IsDestAnswer) = 1
        /\ Count(trace[p], IsCacheSet) = 0
        /\ CacheGet(cache, AUTH_USERNAME) = CacheRead(trace[p])

\* An init call that failed on an instance that holds a token from before.
C34_WitnessInit ==
    \E p \in Procs :
        /\ InitDone(p)
        /\ outcome[p].state = "rejected"
        /\ Count(trace[p], IsTokenPost) >= 1
        /\ CacheGet(cache, AUTH_USERNAME) \in Tokens

\* ------------------------------------------------------------------ C35

\* The work of a call is bounded by the budget: an init call has made at most
\* N health probes and at most N token POSTs; each fetchToken call at most N
\* token POSTs; a relay call at most two destination POSTs, at most two
\* fetchToken calls (one on a cache miss, one in 401 recovery) and so at most
\* 2N token POSTs, and at most N when it found a token in the cache.
C35_Bounded ==
    \A p \in Procs :
        LET tr == trace[p] IN
        /\ frame[p].op = "init" =>
             /\ Count(tr, IsHealthGet) <= N
             /\ Count(tr, IsTokenPost) <= N
             /\ Count(tr, IsDestPost) = 0
        /\ frame[p].op = "relay" =>
             /\ Count(tr, IsHealthGet) = 0
             /\ Count(tr, IsDestPost) <= 2
             /\ Count(tr, IsFetchCall) <= (IF CacheMiss(p) THEN 2 ELSE 1)
             /\ \A j \in Indices(tr, IsFetchCall) :
                    Count(FetchSegment(tr, j), IsTokenPost) <= N
             /\ Count(tr, IsTokenPost) <= 2 * N
             /\ CacheHit(p) => Count(tr, IsTokenPost) <= N
             /\ Count(tr, IsDelay) <= Count(tr, IsTokenPost)

\* A call that is pending resolves or rejects.
C35_Settles ==
    \A p \in Procs :
        (outcome[p] = Pending) ~> (frame[p].pc = "done" /\ outcome[p].state \in {"resolved", "rejected"})

\* C35: every call ends after bounded work, given that each HTTP request and
\* each delay completes: an init call makes at most N health probes and at
\* most N token POSTs; a fetchToken call at most N token POSTs; a relay call at
\* most 2 destination POSTs and at most 2N token POSTs (up to N on a cache
\* miss and up to N in 401 recovery), and then resolves or rejects.
C35_BoundedTermination == []C35_Bounded /\ C35_Settles

\* A relay call that did all the work the bound allows and then rejected: N
\* token POSTs on the miss (the last one answered), a POST answered 401, and
\* N more token POSTs that failed.
C35_Witness ==
    \E p \in Procs :
        /\ RelayDone(p)
        /\ N >= 2
        /\ CacheMiss(p)
        /\ Count(trace[p], IsTokenPost) = 2 * N
        /\ Count(trace[p], IsDestPost) = 1
        /\ outcome[p] = Rejected(TokenFetchError)

\* A relay call that resolved after two destination POSTs and 2N token POSTs.
C35_WitnessTwoSends ==
    \E p \in Procs :
        /\ RelayDone(p)
        /\ N >= 2
        /\ Count(trace[p], IsTokenPost) = 2 * N
        /\ Count(trace[p], IsDestPost) = 2
        /\ outcome[p] = Resolved

\* ------------------------------------------------------------------ C36

\* The step in which the host calls relay on p.
RelayStarts(p) == Free(p) /\ frame'[p].op = "relay" /\ frame'[p].pc \notin {"idle", "done"}

\* relay can be called whenever no call is in progress, whatever came before;
\* a relay call makes no health probe and does not fail with init's error;
\* and a call that read an empty cache runs fetchToken first and sends the
\* payload with the token it is given.
C36_State ==
    \A p \in Procs :
        /\ (p = Host /\ Free(p)) => ENABLED (\E data \in Payloads : RelayCall(p, data))
        /\ frame[p].op = "relay" =>
             LET st == Steps(trace[p]) IN
             /\ Count(st, IsHealthGet) = 0
             /\ Count(st, IsHealthAnswer) = 0
             /\ outcome[p] # Rejected(InitError)
             /\ CacheMiss(p) =>
                  /\ Len(st) >= 3
                  /\ IsCacheGet(st[1]) /\ IsFetchCall(st[2]) /\ st[3] = EvPostToken
                  /\ \A j \in Indices(st, IsDestPost) : j > 3
                  /\ Count(FetchSegment(st, 2), IsGoodTokenAnswer) = 1 =>
                       LET g == Min(Indices(st, IsGoodTokenAnswer)) IN
                       /\ Len(st) >= g + 3 + (IF apm THEN 2 ELSE 0)
                       /\ st[g + 1] = EvCacheSet(AUTH_USERNAME, st[g].r.data)
                       /\ IsSendCall(st[g + 2 + (IF apm THEN 2 ELSE 0)])
                       /\ st[g + 3 + (IF apm THEN 2 ELSE 0)]
                            = makeRequest(st[g].r.data, frame[p].payload)

\* A relay call made on an empty cache starts as a cache miss, whether init
\* was never called (no outcome yet), has failed, or an earlier relay failed.
C36_Step ==
    \A p \in Procs :
        (RelayStarts(p) /\ cache = EmptyCache) =>
            /\ outcome'[p] = Pending
            /\ frame'[p].pc = "fetch_token"
            /\ Steps(trace'[p]) = <<EvCacheGet(AUTH_USERNAME, undefined),
                                    EvCall("fetchToken"), EvPostToken>>
            /\ UNCHANGED <<cache, configuration, loggerService, apm>>

\* C36: relay is not gated on init: relay never makes a health probe and
\* never checks whether init succeeded; called when init was never run or has
\* failed (empty cache) it behaves as an ordinary cache miss, running
\* fetchToken and then sending the payload.
C36_RelayNotGated == []C36_State /\ [][C36_Step]_vars

\* A relay call that resolved on an instance whose init was called (it has
\* the tracer init was given) and left the cache empty, so init failed.
C36_Witness ==
    \E p \in Procs :
        /\ RelayDone(p)
        /\ apm
        /\ CacheMiss(p)
        /\ outcome[p] = Resolved
        /\ Count(trace[p], IsDestPost) = 1
        /\ Count(trace[p], IsTokenPost) >= 1

\* A relay call running on an instance on which nothing was called before.
C36_WitnessNeverStarted ==
    \E p \in Procs :
        /\ frame[p].op = "relay"
        /\ ~apm /\ ~loggerService
        /\ CacheMiss(p)
        /\ frame[p].pc = "send_first"

\* ------------------------------------------------------------------ C37

\* The destination POSTs of a call, oldest first.
DestPosts(tr) == SelectSeq(tr, IsDestPost)

\* The token the fetchToken call made at position j of tr returned.
Returned(tr, j) ==
    LET seg == FetchSegment(tr, j) IN seg[Min(GoodTokenAnswers(seg))].r.data

\* The token relay call p resolved before its try block: the value it read
\* from the cache, or on a miss the value its own fetchToken returned.
ResolvedToken(p) ==
    IF CacheHit(p) THEN CacheRead(trace[p])
    ELSE Returned(trace[p], Min(Indices(trace[p], IsFetchCall)))

\* A relay call reads the cache once; its first POST carries the token it
\* resolved and its retry POST the token its own recovery fetchToken
\* returned, whatever the cache holds by then.
C37_State ==
    \A p \in Procs :
        frame[p].op = "relay" =>
            LET tr == trace[p]
                posts == DestPosts(tr)
            IN  /\ Count(tr, IsCacheGet) = 1
                /\ Len(posts) <= 2
                /\ Len(posts) >= 1 =>
                     /\ posts[1] = makeRequest(ResolvedToken(p), frame[p].payload)
                     /\ frame[p].token = ResolvedToken(p)
                /\ Len(posts) = 2 =>
                     LET t == Returned(tr, Max(Indices(tr, IsFetchCall))) IN
                     /\ posts[2] = makeRequest(t, frame[p].payload)
                     /\ frame[p].newToken = t
                     /\ Max(Indices(tr, IsFetchCall)) > Min(Indices(tr, IsDestPost))

\* No step, a cache write of another call included, changes a POST a call has
\* made or a token a call has bound.
C37_Step ==
    \A p \in Procs :
        frame[p].op = "relay" =>
            LET a == DestPosts(trace[p])
                b == DestPosts(trace'[p])
            IN  /\ Len(a) <= Len(b)
                /\ SubSeq(b, 1, Len(a)) = a
                /\ frame[p].token # undefined => frame'[p].token = frame[p].token
                /\ frame[p].newToken # undefined => frame'[p].newToken = frame[p].newToken
                /\ (cache' # cache /\ p \notin Writers) =>
                     frame'[p] = frame[p] /\ trace'[p] = trace[p]

\* C37: each relay call sends with the token it resolved itself: the first
\* POST carries the value that call read from the cache, or got from its own
\* fetchToken on a miss, and the retry POST carries the value returned by its
\* own recovery fetchToken; a cache overwrite by a concurrent relay call
\* between resolution and send never changes the token of a POST already bound
\* to a call, and the cache is not read again within a call.
C37_OwnToken == []C37_State /\ [][C37_Step]_vars

\* A call resolved with the one POST it made with its own token, while the
\* cache holds the other token, written by a concurrent call.
C37_Witness ==
    \E p \in Procs, q \in Procs :
        /\ p # q
        /\ RelayDone(p) /\ outcome[p] = Resolved
        /\ Len(DestPosts(trace[p])) = 1
        /\ frame[p].token \in Tokens
        /\ CacheGet(cache, AUTH_USERNAME) \in Tokens \ {frame[p].token}
        /\ Count(trace[q], IsCacheSet) >= 1

\* A call whose first POST is in flight with a token the cache no longer holds.
C37_WitnessInFlight ==
    \E p \in Procs :
        /\ frame[p].pc = "send_first"
        /\ CacheMiss(p)
        /\ CacheGet(cache, AUTH_USERNAME) \in Tokens \ {frame[p].token}

====
